---- MODULE Spec2Model ----
(***************************************************************************)
(* A model of the ChessPy rules engine (package chess_game): the Board,    *)
(* the piece kinds' move generation, the move legality functions, the      *)
(* ChessGame orchestrator and the two-player session of run_multiplayer.   *)
(*                                                                         *)
(* Conventions.  A square is a pair <<rank, file>>; Python's position[0]   *)
(* is p[1] here and position[1] is p[2].  A piece object is an index into  *)
(* the sequence b.pieces, and None is 0.  Python attributes keep their     *)
(* names.  An attribute that an object does not have is "absent": only     *)
(* Rook and King set has_moved in their constructors.  An operation that   *)
(* can raise returns a record whose field err names the exception ("" for  *)
(* a normal return) and whose field b is the board as the exception left   *)
(* it.                                                                     *)
(***************************************************************************)
EXTENDS Integers, Sequences, FiniteSets, TLC

None == 0

Squares == (0 .. 7) \X (0 .. 7)

InRange(p) == p[1] >= 0 /\ p[1] <= 7 /\ p[2] >= 0 /\ p[2] <= 7

Abs(x) == IF x < 0 THEN -x ELSE x

Min(x, y) == IF x < y THEN x ELSE y

Max(x, y) == IF x < y THEN y ELSE x

OtherColor(c) == IF c = "black" THEN "white" ELSE "black"

(***************************************************************************)
(* pieces.py: constructors.                                                *)
(***************************************************************************)
HasMovedAtInit(name) == IF name \in {"Rook", "King"} THEN "false" ELSE "absent"

NewPiece(name, color, position) ==
    [name |-> name, color |-> color, position |-> position,
     has_moved |-> HasMovedAtInit(name), legal_moves |-> {}]

NameOfLetter(ch) ==
    CASE ch \in {"p", "P"} -> "Pawn"
      [] ch \in {"r", "R"} -> "Rook"
      [] ch \in {"n", "N"} -> "Knight"
      [] ch \in {"b", "B"} -> "Bishop"
      [] ch \in {"q", "Q"} -> "Queen"
      [] ch \in {"k", "K"} -> "King"

ColorOfLetter(ch) ==
    IF ch \in {"p", "r", "n", "b", "q", "k"} THEN "black" ELSE "white"

from_algebraic_notation(ch, position) ==
    NewPiece(NameOfLetter(ch), ColorOfLetter(ch), position)

\* Fault variant of to_algebraic_notation: every kind is written with the
\* first letter of its name.
to_initial_letter(pc) ==
    LET low == CASE pc.name = "Pawn" -> "p"
                 [] pc.name = "Rook" -> "r"
                 [] pc.name = "Knight" -> "k"
                 [] pc.name = "Bishop" -> "b"
                 [] pc.name = "Queen" -> "q"
                 [] pc.name = "King" -> "k"
        up == CASE pc.name = "Pawn" -> "P"
                [] pc.name = "Rook" -> "R"
                [] pc.name = "Knight" -> "K"
                [] pc.name = "Bishop" -> "B"
                [] pc.name = "Queen" -> "Q"
                [] pc.name = "King" -> "K"
    IN IF pc.color = "black" THEN low ELSE up

to_algebraic_notation(pc) ==
    LET low == CASE pc.name = "Pawn" -> "p"
                 [] pc.name = "Rook" -> "r"
                 [] pc.name = "Knight" -> "n"
                 [] pc.name = "Bishop" -> "b"
                 [] pc.name = "Queen" -> "q"
                 [] pc.name = "King" -> "k"
        up == CASE pc.name = "Pawn" -> "P"
                [] pc.name = "Rook" -> "R"
                [] pc.name = "Knight" -> "N"
                [] pc.name = "Bishop" -> "B"
                [] pc.name = "Queen" -> "Q"
                [] pc.name = "King" -> "K"
    IN IF pc.color = "black" THEN low ELSE up

(***************************************************************************)
(* board.py: square queries.                                               *)
(***************************************************************************)
get_piece_at_square(b, position) ==
    IF ~InRange(position) THEN None ELSE b.board_table[position]

\* Raises ValueError out of range; every caller passes a square of the board.
is_square_occupied(b, position) == b.board_table[position] # None

is_square_attacked(b, position, color) ==
    \E i \in 1 .. Len(b.piece_list) :
        /\ b.pieces[b.piece_list[i]].color # color
        /\ position \in b.pieces[b.piece_list[i]].legal_moves

\* Fault variant of is_path_blocked: no path is ever blocked.
no_path_blocked(b, s, e) == FALSE

is_path_blocked(b, s, e) ==
    IF s[1] = e[1]
    THEN \E i \in (Min(s[2], e[2]) + 1) .. (Max(s[2], e[2]) - 1) :
             is_square_occupied(b, <<s[1], i>>)
    ELSE IF s[2] = e[2]
    THEN \E i \in (Min(s[1], e[1]) + 1) .. (Max(s[1], e[1]) - 1) :
             is_square_occupied(b, <<i, s[2]>>)
    ELSE IF Abs(s[1] - e[1]) = Abs(s[2] - e[2])
    THEN \E i \in 1 .. (Abs(s[1] - e[1]) - 1) :
             is_square_occupied(b,
                 << IF s[1] < e[1] THEN s[1] + i ELSE s[1] - i,
                    IF s[2] >= e[2] THEN s[2] - i ELSE s[2] + i >>)
    ELSE FALSE

(***************************************************************************)
(* pieces.py: generate_possible_moves of each kind.                        *)
(***************************************************************************)
Ray(p, i, j) == {<<p[1] + k * i, p[2] + k * j>> : k \in 1 .. 7} \cap Squares

PawnPossibleMoves(b, id) ==
    LET p == b.pieces[id].position
        d == IF b.pieces[id].color = "white" THEN -1 ELSE 1
        start == IF b.pieces[id].color = "white" THEN 6 ELSE 1
        ahead == <<p[1] + d, p[2]>>
        two == <<p[1] + 2 * d, p[2]>>
        inner == p[1] + 1 < 8 /\ p[2] - 1 >= 0 /\ p[1] - 1 >= 0 /\ p[2] + 1 < 8
        step2 == IF p[1] = start /\ get_piece_at_square(b, two) = None
                 THEN {two} ELSE {}
        diag == IF inner
                THEN {q \in {<<p[1] + d, p[2] - 1>>, <<p[1] + d, p[2] + 1>>} :
                          is_square_occupied(b, q)}
                ELSE {}
        drop == IF inner /\ is_square_occupied(b, ahead) THEN {ahead} ELSE {}
    IN (({ahead} \cup step2) \cup diag) \ drop

RookPossibleMoves(b, id) ==
    LET p == b.pieces[id].position
    IN Ray(p, 1, 0) \cup Ray(p, -1, 0) \cup Ray(p, 0, 1) \cup Ray(p, 0, -1)

KnightPossibleMoves(b, id) ==
    LET p == b.pieces[id].position
    IN {q \in Squares : /\ Abs(q[1] - p[1]) + Abs(q[2] - p[2]) = 3
                        /\ q[1] # p[1]
                        /\ q[2] # p[2]}

BishopPossibleMoves(b, id) ==
    LET p == b.pieces[id].position
    IN Ray(p, 1, 1) \cup Ray(p, 1, -1) \cup Ray(p, -1, 1) \cup Ray(p, -1, -1)

QueenPossibleMoves(b, id) ==
    BishopPossibleMoves(b, id) \cup RookPossibleMoves(b, id)

\* The castling squares of King.generate_possible_moves: rank 0 for black,
\* rank 7 for white, whatever square the king stands on.
KingCastleRank(color) == IF color = "black" THEN 0 ELSE 7

KingCastlingMoves(b, id) ==
    LET c == b.pieces[id].color
        r == KingCastleRank(c)
        left == /\ ~is_path_blocked(b, <<r, 4>>, <<r, 0>>)
                /\ ~is_square_attacked(b, <<r, 4>>, c)
                /\ ~is_square_attacked(b, <<r, 3>>, c)
                /\ ~is_square_attacked(b, <<r, 2>>, c)
        right == /\ ~is_path_blocked(b, <<r, 4>>, <<r, 7>>)
                 /\ ~is_square_attacked(b, <<r, 4>>, c)
                 /\ ~is_square_attacked(b, <<r, 5>>, c)
                 /\ ~is_square_attacked(b, <<r, 6>>, c)
    IN IF b.pieces[id].has_moved = "false"
       THEN (IF left THEN {<<r, 2>>} ELSE {}) \cup (IF right THEN {<<r, 6>>} ELSE {})
       ELSE {}

KingPossibleMoves(b, id) ==
    LET p == b.pieces[id].position
        near == {<<p[1] + i, p[2] + j>> : i \in {-1, 0, 1}, j \in {-1, 0, 1}}
    IN ((near \ {p}) \cap Squares) \cup KingCastlingMoves(b, id)

generate_possible_moves(b, id) ==
    CASE b.pieces[id].name = "Pawn" -> PawnPossibleMoves(b, id)
      [] b.pieces[id].name = "Rook" -> RookPossibleMoves(b, id)
      [] b.pieces[id].name = "Knight" -> KnightPossibleMoves(b, id)
      [] b.pieces[id].name = "Bishop" -> BishopPossibleMoves(b, id)
      [] b.pieces[id].name = "Queen" -> QueenPossibleMoves(b, id)
      [] b.pieces[id].name = "King" -> KingPossibleMoves(b, id)

(***************************************************************************)
(* chess_logic.py: is_legal_move; pieces.py: generate_legal_moves and      *)
(* board.py: __refresh_legal_moves, which refreshes the pieces one after   *)
(* the other in the order of piece_list, each against the caches as the    *)
(* pieces before it left them.                                             *)
(***************************************************************************)
is_legal_move(b, id, new_position) ==
    LET target == get_piece_at_square(b, new_position)
        ep == b.en_passant_piece
    IN IF target # None /\ b.pieces[target].color = b.pieces[id].color
       THEN FALSE
       ELSE IF b.pieces[id].name = "Knight"
       THEN TRUE
       ELSE IF /\ b.pieces[id].name = "Pawn"
               /\ ep # None
               /\ new_position[2] = b.pieces[ep].position[2]
               /\ Abs(new_position[1] - b.pieces[ep].position[1]) = 1
       THEN TRUE
       ELSE ~is_path_blocked(b, b.pieces[id].position, new_position)

\* Fault variant of generate_legal_moves: the filter is left out.
generate_unfiltered_moves(b, id) == generate_possible_moves(b, id)

generate_legal_moves(b, id) ==
    {m \in generate_possible_moves(b, id) :
        m # b.pieces[id].position /\ is_legal_move(b, id, m)}

RECURSIVE RefreshFrom(_, _)
RefreshFrom(b, i) ==
    IF i > Len(b.piece_list)
    THEN b
    ELSE LET id == b.piece_list[i]
             lm == generate_legal_moves(b, id)
         IN RefreshFrom([b EXCEPT !.pieces[id].legal_moves = lm], i + 1)

refresh_legal_moves(b) == RefreshFrom(b, 1)

(***************************************************************************)
(* board.py: the mutators.                                                 *)
(***************************************************************************)
EmptyTable == [p \in Squares |-> None]

EmptyBoard ==
    [board_table |-> EmptyTable, piece_list |-> <<>>, pieces |-> <<>>,
     en_passant_piece |-> None, last_piece_captured |-> None,
     has_moved_changed |-> FALSE]

InList(s, x) == \E i \in 1 .. Len(s) : s[i] = x

\* list.remove: the first occurrence goes.
ListRemove(s, x) ==
    LET k == CHOOSE i \in 1 .. Len(s) :
                 s[i] = x /\ \A j \in 1 .. (i - 1) : s[j] # x
    IN SubSeq(s, 1, k - 1) \o SubSeq(s, k + 1, Len(s))

\* Fault variant of place_piece: the square is not tested for a piece.
place_piece_unchecked(b, pc) ==
    IF ~InRange(pc.position)
    THEN [b |-> b, err |-> "ValueError"]
    ELSE LET id == Len(b.pieces) + 1
             b1 == [b EXCEPT !.pieces = Append(@, pc),
                             !.board_table[pc.position] = id,
                             !.piece_list = Append(@, id)]
         IN [b |-> refresh_legal_moves(b1), err |-> ""]

\* pc is a piece object that is not on the board yet.
place_piece(b, pc) ==
    IF get_piece_at_square(b, pc.position) # None
    THEN [b |-> b, err |-> "ValueError"]
    ELSE IF ~InRange(pc.position)
    THEN [b |-> b, err |-> "ValueError"]
    ELSE LET id == Len(b.pieces) + 1
             b1 == [b EXCEPT !.pieces = Append(@, pc),
                             !.board_table[pc.position] = id,
                             !.piece_list = Append(@, id)]
         IN [b |-> refresh_legal_moves(b1), err |-> ""]

remove_piece_at_square(b, position) ==
    IF ~InRange(position)
    THEN [b |-> b, err |-> "ValueError"]
    ELSE LET id == get_piece_at_square(b, position)
             b1 == [b EXCEPT !.board_table[position] = None]
         IN IF id # None
            THEN IF InList(b.piece_list, id)
                 THEN [b |-> refresh_legal_moves(
                                 [b1 EXCEPT !.piece_list = ListRemove(@, id)]),
                       err |-> ""]
                 ELSE [b |-> b1, err |-> "ValueError"]
            ELSE [b |-> b1, err |-> ""]

IsEnPassantCapture(b, id, new_position) ==
    /\ b.pieces[id].name = "Pawn"
    /\ b.en_passant_piece # None
    /\ b.pieces[b.en_passant_piece].position =
           <<new_position[1] + (IF b.pieces[id].color = "white" THEN 1 ELSE -1),
             new_position[2]>>
    /\ b.pieces[b.en_passant_piece].color # b.pieces[id].color

\* move_piece_to_square, lines 115-136: the piece the move takes off the board.
OccupyingPiece(b, id, new_position) ==
    IF IsEnPassantCapture(b, id, new_position)
    THEN b.en_passant_piece
    ELSE get_piece_at_square(b, new_position)

\* Fault variant of MarkMove: a move that captures nothing leaves the undo
\* record's captured piece as it was.
MarkMoveKeepsCapture(b, id, new_position, change_en_passant) ==
    [b EXCEPT
       !.has_moved_changed = (b.pieces[id].has_moved = "false"),
       !.pieces[id].has_moved = "true",
       !.board_table = IF IsEnPassantCapture(b, id, new_position)
                       THEN [@ EXCEPT ![b.pieces[b.en_passant_piece].position] = None]
                       ELSE @,
       !.en_passant_piece =
           IF change_en_passant
           THEN IF /\ b.pieces[id].name = "Pawn"
                   /\ Abs(new_position[1] - b.pieces[id].position[1]) = 2
                THEN id ELSE None
           ELSE @,
       !.last_piece_captured = IF OccupyingPiece(b, id, new_position) # None
                               THEN OccupyingPiece(b, id, new_position) ELSE @]

\* Fault variant of MarkMove: the en passant target is updated whatever
\* change_en_passant says.
MarkMoveAlwaysTracked(b, id, new_position, change_en_passant) ==
    [b EXCEPT
       !.has_moved_changed = (b.pieces[id].has_moved = "false"),
       !.pieces[id].has_moved = "true",
       !.board_table = IF IsEnPassantCapture(b, id, new_position)
                       THEN [@ EXCEPT ![b.pieces[b.en_passant_piece].position] = None]
                       ELSE @,
       !.en_passant_piece =
           IF /\ b.pieces[id].name = "Pawn"
              /\ Abs(new_position[1] - b.pieces[id].position[1]) = 2
           THEN id ELSE None,
       !.last_piece_captured = OccupyingPiece(b, id, new_position)]

\* move_piece_to_square, lines 118-152: the undo record, the has-moved flag,
\* the en passant victim's square and the en passant target.
MarkMove(b, id, new_position, change_en_passant) ==
    [b EXCEPT
       !.has_moved_changed = (b.pieces[id].has_moved = "false"),
       !.pieces[id].has_moved = "true",
       !.board_table = IF IsEnPassantCapture(b, id, new_position)
                       THEN [@ EXCEPT ![b.pieces[b.en_passant_piece].position] = None]
                       ELSE @,
       !.en_passant_piece =
           IF change_en_passant
           THEN IF /\ b.pieces[id].name = "Pawn"
                   /\ Abs(new_position[1] - b.pieces[id].position[1]) = 2
                THEN id ELSE None
           ELSE @,
       !.last_piece_captured = OccupyingPiece(b, id, new_position)]

\* move_piece_to_square, lines 153-161: the captured piece leaves the list,
\* the piece changes square and every cache is refreshed.
Relocate(b, id, new_position, occupying_piece) ==
    refresh_legal_moves(
        [b EXCEPT !.piece_list = IF occupying_piece # None
                                 THEN ListRemove(@, occupying_piece) ELSE @,
                  !.board_table[b.pieces[id].position] = None,
                  !.pieces[id].position = new_position,
                  !.board_table[new_position] = id])

\* list.remove raises ValueError for a piece that is not in the list.
MoveMarked(b, id, new_position, occupying_piece) ==
    IF occupying_piece # None /\ ~InList(b.piece_list, occupying_piece)
    THEN [b |-> b, ret |-> None, err |-> "ValueError"]
    ELSE [b |-> Relocate(b, id, new_position, occupying_piece),
          ret |-> occupying_piece, err |-> ""]

\* Reading has_moved raises AttributeError for None and for a piece whose
\* class does not set the attribute; nothing has been changed by then.
move_piece_to_square(b, id, new_position, change_en_passant) ==
    IF ~InRange(new_position)
    THEN [b |-> b, ret |-> None, err |-> "ValueError"]
    ELSE IF id = None \/ b.pieces[id].has_moved = "absent"
    THEN [b |-> b, ret |-> None, err |-> "AttributeError"]
    ELSE MoveMarked(MarkMove(b, id, new_position, change_en_passant),
                    id, new_position, OccupyingPiece(b, id, new_position))

\* Fault variant of Unrecord: the has-moved flag is not reset.
UnrecordKeepsMoved(b, id) ==
    [b EXCEPT !.piece_list = IF b.last_piece_captured # None
                             THEN Append(@, b.last_piece_captured) ELSE @,
              !.board_table[b.pieces[id].position] = b.last_piece_captured,
              !.last_piece_captured = None,
              !.has_moved_changed = FALSE]

\* revert_move, lines 174-187: the undo record is played back.
Unrecord(b, id) ==
    [b EXCEPT !.piece_list = IF b.last_piece_captured # None
                             THEN Append(@, b.last_piece_captured) ELSE @,
              !.board_table[b.pieces[id].position] = b.last_piece_captured,
              !.last_piece_captured = None,
              !.pieces[id].has_moved = IF b.has_moved_changed THEN "false" ELSE @,
              !.has_moved_changed = FALSE]

\* Every caller passes a square of the board as old_position.
revert_move(b, id, old_position) ==
    IF ~InRange(old_position)
    THEN [b |-> Unrecord(b, id), err |-> "IndexError"]
    ELSE [b |-> refresh_legal_moves(
                    [Unrecord(b, id) EXCEPT !.pieces[id].position = old_position,
                                            !.board_table[old_position] = id]),
          err |-> ""]

PromotionName(choice) ==
    CASE choice = "Q" -> "Queen"
      [] choice = "R" -> "Rook"
      [] choice = "B" -> "Bishop"
      [] choice = "N" -> "Knight"
      [] OTHER -> ""

\* Fault variant of promote_pawn: the pawn's rank is not looked at.
promote_pawn_on_any_rank(b, id, choice) ==
    LET pc == b.pieces[id]
    IN IF pc.name # "Pawn"
       THEN [b |-> b, err |-> "ValueError"]
       ELSE IF PromotionName(choice) = ""
       THEN [b |-> b, err |-> "ValueError"]
       ELSE IF ~InList(b.piece_list, id)
       THEN [b |-> b, err |-> "ValueError"]
       ELSE LET new_piece == Len(b.pieces) + 1
                b1 == [b EXCEPT
                         !.pieces = Append(@, NewPiece(PromotionName(choice),
                                                       pc.color, pc.position)),
                         !.piece_list = Append(ListRemove(@, id), new_piece),
                         !.board_table[pc.position] = new_piece]
            IN [b |-> refresh_legal_moves(b1), err |-> ""]

promote_pawn(b, id, choice) ==
    LET pc == b.pieces[id]
    IN IF pc.name # "Pawn"
       THEN [b |-> b, err |-> "ValueError"]
       ELSE IF \/ (pc.color = "white" /\ pc.position[1] # 0)
               \/ (pc.color = "black" /\ pc.position[1] # 7)
       THEN [b |-> b, err |-> "ValueError"]
       ELSE IF PromotionName(choice) = ""
       THEN [b |-> b, err |-> "ValueError"]
       ELSE IF ~InList(b.piece_list, id)
       THEN [b |-> b, err |-> "ValueError"]
       ELSE LET new_piece == Len(b.pieces) + 1
                b1 == [b EXCEPT
                         !.pieces = Append(@, NewPiece(PromotionName(choice),
                                                       pc.color, pc.position)),
                         !.piece_list = Append(ListRemove(@, id), new_piece),
                         !.board_table[pc.position] = new_piece]
            IN [b |-> refresh_legal_moves(b1), err |-> ""]

(***************************************************************************)
(* board.py: FEN import.  A string is a sequence of one-character strings. *)
(* parse_fen returns the rows of the grid; a cell is <<>> for None and     *)
(* <<piece>> for a piece object.                                           *)
(***************************************************************************)
Digits == {"0", "1", "2", "3", "4", "5", "6", "7", "8", "9"}

PieceLetters == {"p", "r", "n", "b", "q", "k", "P", "R", "N", "B", "Q", "K"}

DigitValue(ch) ==
    CASE ch = "0" -> 0 [] ch = "1" -> 1 [] ch = "2" -> 2 [] ch = "3" -> 3
      [] ch = "4" -> 4 [] ch = "5" -> 5 [] ch = "6" -> 6 [] ch = "7" -> 7
      [] ch = "8" -> 8 [] ch = "9" -> 9

\* str.split("/")
RECURSIVE SplitRanks(_, _, _)
SplitRanks(str, i, cur) ==
    IF i > Len(str)
    THEN <<cur>>
    ELSE IF str[i] = "/"
    THEN <<cur>> \o SplitRanks(str, i + 1, <<>>)
    ELSE SplitRanks(str, i + 1, Append(cur, str[i]))

RECURSIVE ParseRank(_, _, _, _)
ParseRank(rank, i, k, row) ==
    IF k > Len(rank)
    THEN [row |-> row, err |-> ""]
    ELSE IF rank[k] \in Digits
    THEN ParseRank(rank, i, k + 1,
                   row \o [n \in 1 .. DigitValue(rank[k]) |-> <<>>])
    ELSE IF rank[k] \in PieceLetters
    THEN ParseRank(rank, i, k + 1,
                   Append(row, <<from_algebraic_notation(rank[k], <<i, Len(row)>>)>>))
    ELSE [row |-> row, err |-> "ValueError"]

RECURSIVE ParseRows(_, _, _)
ParseRows(ranks, i, rows) ==
    IF i > 7
    THEN [rows |-> rows, err |-> ""]
    ELSE IF i + 1 > Len(ranks)
    THEN [rows |-> rows, err |-> "IndexError"]
    ELSE IF ranks[i + 1] = <<"8">>
    THEN ParseRows(ranks, i + 1, Append(rows, [n \in 1 .. 8 |-> <<>>]))
    ELSE LET r == ParseRank(ranks[i + 1], i, 1, <<>>)
         IN IF r.err # ""
            THEN [rows |-> rows, err |-> r.err]
            ELSE ParseRows(ranks, i + 1, Append(rows, r.row))

parse_fen(fen_string) == ParseRows(SplitRanks(fen_string, 1, <<>>), 0, <<>>)

\* The pieces of the rows, row by row: the list comprehension of populate_board.
RECURSIVE RowMajorPieces(_, _, _)
RowMajorPieces(rows, i, k) ==
    IF i > Len(rows)
    THEN <<>>
    ELSE IF k > Len(rows[i])
    THEN RowMajorPieces(rows, i + 1, 1)
    ELSE rows[i][k] \o RowMajorPieces(rows, i, k + 1)

\* Board.populate_board on rows of eight cells each.
populate_board(rows) ==
    LET pcs == RowMajorPieces(rows, 1, 1)
        idAt(p) == IF rows[p[1] + 1][p[2] + 1] = <<>>
                   THEN None
                   ELSE CHOOSE id \in 1 .. Len(pcs) : pcs[id].position = p
    IN refresh_legal_moves(
           [EmptyBoard EXCEPT !.board_table = [p \in Squares |-> idAt(p)],
                              !.piece_list = [id \in 1 .. Len(pcs) |-> id],
                              !.pieces = pcs])

(***************************************************************************)
(* board.py: FEN export.                                                   *)
(***************************************************************************)
DigitChar(n) ==
    CASE n = 1 -> "1" [] n = 2 -> "2" [] n = 3 -> "3" [] n = 4 -> "4"
      [] n = 5 -> "5" [] n = 6 -> "6" [] n = 7 -> "7" [] n = 8 -> "8"

RECURSIVE FenRow(_, _, _, _)
FenRow(b, r, c, empty_squares) ==
    IF c > 7
    THEN IF empty_squares > 0 THEN <<DigitChar(empty_squares)>> ELSE <<>>
    ELSE IF b.board_table[<<r, c>>] = None
    THEN FenRow(b, r, c + 1, empty_squares + 1)
    ELSE (IF empty_squares > 0 THEN <<DigitChar(empty_squares)>> ELSE <<>>)
         \o <<to_algebraic_notation(b.pieces[b.board_table[<<r, c>>]])>>
         \o FenRow(b, r, c + 1, 0)

RECURSIVE FenRows(_, _)
FenRows(b, r) ==
    IF r > 7 THEN <<>> ELSE FenRow(b, r, 0, 0) \o <<"/">> \o FenRows(b, r + 1)

get_fen_board(b) == LET fen == FenRows(b, 0) IN SubSeq(fen, 1, Len(fen) - 1)

UnmovedAt(b, position, name) ==
    LET id == get_piece_at_square(b, position)
    IN id # None /\ b.pieces[id].name = name /\ b.pieces[id].has_moved = "false"

get_fen_castling_rights(b) ==
    LET fen ==
          (IF UnmovedAt(b, <<7, 4>>, "King") /\ UnmovedAt(b, <<7, 7>>, "Rook")
           THEN <<"K">> ELSE <<>>)
          \o (IF UnmovedAt(b, <<7, 4>>, "King") /\ UnmovedAt(b, <<7, 0>>, "Rook")
              THEN <<"Q">> ELSE <<>>)
          \o (IF UnmovedAt(b, <<0, 4>>, "King") /\ UnmovedAt(b, <<0, 7>>, "Rook")
              THEN <<"k">> ELSE <<>>)
          \o (IF UnmovedAt(b, <<0, 4>>, "King") /\ UnmovedAt(b, <<0, 0>>, "Rook")
              THEN <<"q">> ELSE <<>>)
    IN IF fen = <<>> THEN <<"-">> ELSE fen

FileChar(c) ==
    CASE c = 0 -> "a" [] c = 1 -> "b" [] c = 2 -> "c" [] c = 3 -> "d"
      [] c = 4 -> "e" [] c = 5 -> "f" [] c = 6 -> "g" [] c = 7 -> "h"

\* Raises ValueError out of range; a pawn that advanced two ranks stands on
\* rank 3 or 4, so the square asked for is on the board.
get_algebraic_notation(position) ==
    <<FileChar(position[2]), DigitChar(8 - position[1])>>

\* Fault variant of get_fen_en_passant_target_square: the square ahead of
\* the pawn is named.
get_fen_square_ahead(b) ==
    IF b.en_passant_piece = None
    THEN <<"-">>
    ELSE LET ep == b.pieces[b.en_passant_piece]
             direction == IF ep.color = "white" THEN -1 ELSE 1
         IN get_algebraic_notation(<<ep.position[1] + direction, ep.position[2]>>)

get_fen_en_passant_target_square(b) ==
    IF b.en_passant_piece = None
    THEN <<"-">>
    ELSE LET ep == b.pieces[b.en_passant_piece]
             direction == IF ep.color = "white" THEN 1 ELSE -1
         IN get_algebraic_notation(<<ep.position[1] + direction, ep.position[2]>>)

get_fen_board_state(b) ==
    [piece_placement |-> get_fen_board(b),
     castling_availability |-> get_fen_castling_rights(b),
     en_passant_target_square |-> get_fen_en_passant_target_square(b)]

(***************************************************************************)
(* chess_logic.py: check, and the simulate / test / revert probe.          *)
(***************************************************************************)
KingsOf(b, color) ==
    SelectSeq(b.piece_list,
              LAMBDA id : b.pieces[id].name = "King" /\ b.pieces[id].color = color)

\* IndexError when the colour has no king on the board.
is_check(b, color) ==
    IF KingsOf(b, color) = <<>>
    THEN [res |-> FALSE, err |-> "IndexError"]
    ELSE [res |-> is_square_attacked(b, b.pieces[KingsOf(b, color)[1]].position, color),
          err |-> ""]

ProbeReverted(rv, res) == [b |-> rv.b, res |-> res, err |-> rv.err]

\* Fault variant of ProbeChecked: the probe is not reverted.
ProbeNotReverted(mv, chk, id, old_position) ==
    [b |-> mv.b, res |-> chk.res, err |-> chk.err]

ProbeChecked(mv, chk, id, old_position) ==
    IF chk.err # ""
    THEN [b |-> mv.b, res |-> FALSE, err |-> chk.err]
    ELSE ProbeReverted(revert_move(mv.b, id, old_position), chk.res)

ProbeMoved(mv, id, color, old_position) ==
    IF mv.err # ""
    THEN [b |-> mv.b, res |-> FALSE, err |-> mv.err]
    ELSE ProbeChecked(mv, is_check(mv.b, color), id, old_position)

is_king_in_check_after_move(b, id, new_position) ==
    ProbeMoved(move_piece_to_square(b, id, new_position, FALSE),
               id, b.pieces[id].color, b.pieces[id].position)

(***************************************************************************)
(* chess_logic.py: is_checkmate and is_stalemate run the same search for a *)
(* move after which the king is not attacked: the pieces of the colour in  *)
(* the order of the piece_list tuple taken at the start, each piece's      *)
(* legal_moves in the iteration order of a Python set, every move probed   *)
(* on the board itself.  Python does not define the iteration order of a   *)
(* set, so the search takes the order as a parameter.                      *)
(***************************************************************************)
SetOrders == {"ascending", "descending"}

LexLess(p, q) == p[1] < q[1] \/ (p[1] = q[1] /\ p[2] < q[2])

FirstInOrder(S, ord) ==
    CHOOSE m \in S :
        \A n \in S \ {m} : IF ord = "ascending" THEN LexLess(m, n) ELSE LexLess(n, m)

RECURSIVE ProbeMoves(_, _, _, _)
ProbedMove(r, id, rest, ord) ==
    IF r.err # ""
    THEN [b |-> r.b, escape |-> FALSE, err |-> r.err]
    ELSE IF ~r.res
    THEN [b |-> r.b, escape |-> TRUE, err |-> ""]
    ELSE ProbeMoves(r.b, id, rest, ord)

ProbeMoves(b, id, todo, ord) ==
    IF todo = {}
    THEN [b |-> b, escape |-> FALSE, err |-> ""]
    ELSE ProbedMove(is_king_in_check_after_move(b, id, FirstInOrder(todo, ord)),
                    id, todo \ {FirstInOrder(todo, ord)}, ord)

RECURSIVE ProbePieces(_, _, _, _, _)
ProbedPiece(r, snapshot, i, color, ord) ==
    IF r.err # "" \/ r.escape
    THEN r
    ELSE ProbePieces(r.b, snapshot, i + 1, color, ord)

ProbePieces(b, snapshot, i, color, ord) ==
    IF i > Len(snapshot)
    THEN [b |-> b, escape |-> FALSE, err |-> ""]
    ELSE IF b.pieces[snapshot[i]].color # color
    THEN ProbePieces(b, snapshot, i + 1, color, ord)
    ELSE ProbedPiece(ProbeMoves(b, snapshot[i], b.pieces[snapshot[i]].legal_moves, ord),
                     snapshot, i, color, ord)

SearchResult(r) == [b |-> r.b, res |-> ~r.escape /\ r.err = "", err |-> r.err]

\* Fault variant of EscapeSearch: the search runs whatever is_check answers.
EscapeSearchUngated(b, chk, in_check, color, ord) ==
    IF chk.err # ""
    THEN [b |-> b, res |-> FALSE, err |-> chk.err]
    ELSE SearchResult(ProbePieces(b, b.piece_list, 1, color, ord))

\* The search runs when is_check answers in_check; otherwise the answer is
\* False and the board is not touched.
EscapeSearch(b, chk, in_check, color, ord) ==
    IF chk.err # ""
    THEN [b |-> b, res |-> FALSE, err |-> chk.err]
    ELSE IF chk.res = in_check
    THEN SearchResult(ProbePieces(b, b.piece_list, 1, color, ord))
    ELSE [b |-> b, res |-> FALSE, err |-> ""]

is_checkmate(b, color, ord) == EscapeSearch(b, is_check(b, color), TRUE, color, ord)

is_stalemate(b, color, ord) == EscapeSearch(b, is_check(b, color), FALSE, color, ord)

(***************************************************************************)
(* game.py: ChessGame.  g is the ChessGame object as a record of its       *)
(* attributes.                                                             *)
(***************************************************************************)
NoChoice == "None"

MOVE_LOG_ENABLED == TRUE

get_current_game_position(g) ==
    [piece_placement |-> get_fen_board(g.board),
     turn |-> IF g.turn = "white" THEN "w" ELSE "b",
     castling_availability |-> get_fen_castling_rights(g.board),
     en_passant_target_square |-> get_fen_en_passant_target_square(g.board)]

Count(log, x) == Cardinality({i \in 1 .. Len(log) : log[i] = x})

\* Fault variant of check_threefold_repetition: two occurrences are enough.
check_twofold_repetition(g) ==
    Count(g.position_log, get_current_game_position(g)) >= 2

check_threefold_repetition(g) ==
    Count(g.position_log, get_current_game_position(g)) >= 3

LogPosition(g) ==
    [g EXCEPT !.position_log = Append(@, get_current_game_position(g))]

\* ChessGame.__init__ on the rows parse_fen returned for the starting position.
NewGame(rows) ==
    LogPosition([board |-> populate_board(rows),
                 captured_pieces |-> [white |-> <<>>, black |-> <<>>],
                 turn |-> "white",
                 promotion_choice |-> NoChoice,
                 is_checkmate |-> FALSE,
                 is_stalemate |-> FALSE,
                 is_threefold_repetition |-> FALSE,
                 fifty_move_counter |-> 0,
                 position_log |-> <<>>,
                 fullmove_counter |-> 0,
                 halfmove_counter |-> 0])

Raised(g, b, err) == [g |-> [g EXCEPT !.board = b], err |-> err]

\* make_move, lines 144-147: the end-of-game flags.
AfterStalemate(g, sm) ==
    IF sm.err # ""
    THEN Raised(g, sm.b, sm.err)
    ELSE [g |-> [g EXCEPT !.board = sm.b,
                          !.is_stalemate = sm.res,
                          !.is_threefold_repetition =
                              check_threefold_repetition([g EXCEPT !.board = sm.b])],
          err |-> ""]

StalemateCheck(g, ord) == AfterStalemate(g, is_stalemate(g.board, g.turn, ord))

AfterCheckmate(g, cm, ord) ==
    IF cm.err # ""
    THEN Raised(g, cm.b, cm.err)
    ELSE StalemateCheck([g EXCEPT !.board = cm.b, !.is_checkmate = cm.res], ord)

CheckmateCheck(g, ord) == AfterCheckmate(g, is_checkmate(g.board, g.turn, ord), ord)

\* log_move: get_move_in_algebraic_notation asks is_checkmate for the "#",
\* which probes on the board; the text it writes is not part of the game.
log_move(g, ord) ==
    IF MOVE_LOG_ENABLED
    THEN is_checkmate(g.board, g.turn, ord)
    ELSE [b |-> g.board, res |-> FALSE, err |-> ""]

AfterLog(g, lg, ord) ==
    IF lg.err # ""
    THEN Raised(g, lg.b, lg.err)
    ELSE CheckmateCheck([g EXCEPT !.board = lg.b], ord)

GameOverChecks(g, ord) == AfterLog(g, log_move(g, ord), ord)

\* Fault variant of Bookkeeping: the side to move is not flipped.
BookkeepingSameTurn(g, piece, captured_piece) ==
    LogPosition(
        [g EXCEPT !.fifty_move_counter =
                      IF captured_piece = None /\ g.board.pieces[piece].name # "Pawn"
                      THEN @ + 1 ELSE 0,
                  !.captured_pieces[g.turn] =
                      IF captured_piece # None THEN Append(@, captured_piece) ELSE @,
                  !.halfmove_counter = @ + 1,
                  !.fullmove_counter =
                      IF OtherColor(g.turn) = "white" THEN @ + 1 ELSE @])

\* Fault variant of Bookkeeping: the fullmove counter advances on the moves
\* of White.
BookkeepingFullmoveOnWhite(g, piece, captured_piece) ==
    LogPosition(
        [g EXCEPT !.fifty_move_counter =
                      IF captured_piece = None /\ g.board.pieces[piece].name # "Pawn"
                      THEN @ + 1 ELSE 0,
                  !.captured_pieces[g.turn] =
                      IF captured_piece # None THEN Append(@, captured_piece) ELSE @,
                  !.turn = OtherColor(g.turn),
                  !.halfmove_counter = @ + 1,
                  !.fullmove_counter = IF g.turn = "white" THEN @ + 1 ELSE @])

\* Fault variant of Bookkeeping: the fifty-move counter is never reset.
BookkeepingNoReset(g, piece, captured_piece) ==
    LogPosition(
        [g EXCEPT !.fifty_move_counter = @ + 1,
                  !.captured_pieces[g.turn] =
                      IF captured_piece # None THEN Append(@, captured_piece) ELSE @,
                  !.turn = OtherColor(g.turn),
                  !.halfmove_counter = @ + 1,
                  !.fullmove_counter =
                      IF OtherColor(g.turn) = "white" THEN @ + 1 ELSE @])

\* Fault variant of Bookkeeping: a captured piece goes to the list of the
\* colour that lost it.
BookkeepingCapturedByLoser(g, piece, captured_piece) ==
    LogPosition(
        [g EXCEPT !.fifty_move_counter =
                      IF captured_piece = None /\ g.board.pieces[piece].name # "Pawn"
                      THEN @ + 1 ELSE 0,
                  !.captured_pieces[OtherColor(g.turn)] =
                      IF captured_piece # None THEN Append(@, captured_piece) ELSE @,
                  !.turn = OtherColor(g.turn),
                  !.halfmove_counter = @ + 1,
                  !.fullmove_counter =
                      IF OtherColor(g.turn) = "white" THEN @ + 1 ELSE @])

\* Fault variant of Bookkeeping: the position is not logged.
BookkeepingNoLog(g, piece, captured_piece) ==
    [g EXCEPT !.fifty_move_counter =
                  IF captured_piece = None /\ g.board.pieces[piece].name # "Pawn"
                  THEN @ + 1 ELSE 0,
              !.captured_pieces[g.turn] =
                  IF captured_piece # None THEN Append(@, captured_piece) ELSE @,
              !.turn = OtherColor(g.turn),
              !.halfmove_counter = @ + 1,
              !.fullmove_counter =
                  IF OtherColor(g.turn) = "white" THEN @ + 1 ELSE @]

\* make_move, lines 119-140: the counters, the captured list, the turn and
\* the position log, once the board has been moved on.
Bookkeeping(g, piece, captured_piece) ==
    LogPosition(
        [g EXCEPT !.fifty_move_counter =
                      IF captured_piece = None /\ g.board.pieces[piece].name # "Pawn"
                      THEN @ + 1 ELSE 0,
                  !.captured_pieces[g.turn] =
                      IF captured_piece # None THEN Append(@, captured_piece) ELSE @,
                  !.turn = OtherColor(g.turn),
                  !.halfmove_counter = @ + 1,
                  !.fullmove_counter =
                      IF OtherColor(g.turn) = "white" THEN @ + 1 ELSE @])

IsCastle(g, piece, original_position, new_position) ==
    /\ g.board.pieces[piece].name = "King"
    /\ Abs(new_position[2] - original_position[2]) > 1

\* Fault variant of CastleRookMove: the rook goes to file 3 on either side.
CastleRookMoveQueenside(b, original_position, new_position) ==
    move_piece_to_square(b,
        get_piece_at_square(b,
            <<original_position[1],
              IF new_position[2] < original_position[2] THEN 0 ELSE 7>>),
        <<original_position[1], 3>>,
        TRUE)

\* make_move, lines 99-109: the rook's move of a castle.
CastleRookMove(b, original_position, new_position) ==
    move_piece_to_square(b,
        get_piece_at_square(b,
            <<original_position[1],
              IF new_position[2] < original_position[2] THEN 0 ELSE 7>>),
        <<original_position[1],
          IF new_position[2] < original_position[2] THEN 3 ELSE 5>>,
        TRUE)

\* make_move, lines 114-117.
Promotion(g, b, piece) ==
    IF g.promotion_choice # NoChoice
    THEN promote_pawn(b, piece, g.promotion_choice)
    ELSE [b |-> b, err |-> ""]

AfterPromotion(g, pr, piece, captured_piece, ord) ==
    IF pr.err # ""
    THEN Raised(g, pr.b, pr.err)
    ELSE GameOverChecks(
             Bookkeeping([g EXCEPT !.board = pr.b, !.promotion_choice = NoChoice],
                         piece, captured_piece),
             ord)

AfterPieceMove(g, mv, piece, ord) ==
    IF mv.err # ""
    THEN Raised(g, mv.b, mv.err)
    ELSE AfterPromotion(g, Promotion(g, mv.b, piece), piece, mv.ret, ord)

AfterRookMove(g, rk, piece, new_position, ord) ==
    IF rk.err # ""
    THEN Raised(g, rk.b, rk.err)
    ELSE AfterPieceMove(g, move_piece_to_square(rk.b, piece, new_position, TRUE),
                        piece, ord)

\* make_move, lines 97-147: the move itself, after the four checks passed.
ExecuteMove(g, piece, original_position, new_position, ord) ==
    AfterRookMove(g,
                  IF IsCastle(g, piece, original_position, new_position)
                  THEN CastleRookMove(g.board, original_position, new_position)
                  ELSE [b |-> g.board, ret |-> None, err |-> ""],
                  piece, new_position, ord)

\* Fault variant of AfterProbe: the answer of the probe is not looked at.
AfterProbeUnchecked(g, probe, piece, original_position, new_position, ord) ==
    IF probe.err # ""
    THEN Raised(g, probe.b, probe.err)
    ELSE ExecuteMove([g EXCEPT !.board = probe.b], piece,
                     original_position, new_position, ord)

AfterProbe(g, probe, piece, original_position, new_position, ord) ==
    IF probe.err # ""
    THEN Raised(g, probe.b, probe.err)
    ELSE IF probe.res
    THEN Raised(g, probe.b, "SelfCheck")
    ELSE ExecuteMove([g EXCEPT !.board = probe.b], piece,
                     original_position, new_position, ord)

Checked(g, piece, original_position, new_position, ord) ==
    IF piece = None
    THEN [g |-> g, err |-> "NoPieceAtSquare"]
    ELSE IF g.board.pieces[piece].color # g.turn
    THEN [g |-> g, err |-> "WrongTurn"]
    ELSE IF new_position \notin g.board.pieces[piece].legal_moves
    THEN [g |-> g, err |-> "IllegalMove"]
    ELSE AfterProbe(g, is_king_in_check_after_move(g.board, piece, new_position),
                    piece, original_position, new_position, ord)

make_move(g, original_position, new_position, ord) ==
    Checked(g, get_piece_at_square(g.board, original_position),
            original_position, new_position, ord)

(***************************************************************************)
(* The state machine.  game is the ChessGame object.  call records the     *)
(* last call made on it or on its board: the operation, the piece it was   *)
(* asked to move with its square and its destination (None and <<0, 0>>    *)
(* when make_move turned the call away before it touched a piece), the     *)
(* update_en_passant argument, the value returned, the exception raised    *)
(* and, for a board move made to be reverted, the board as it was before.  *)
(* prior is the call before that one and calls counts the calls made.      *)
(***************************************************************************)
VARIABLES game, call, prior, calls

vars == <<game, call, prior, calls>>

MaxCalls == 2

MaxReach == 2

MaxSide == 1

\* Starting positions: the contents of the STARTING_FEN_FILE.
StandardFen ==
    <<"r", "n", "b", "q", "k", "b", "n", "r", "/", "p", "p", "p", "p", "p",
      "p", "p", "p", "/", "8", "/", "8", "/", "8", "/", "8", "/", "P", "P",
      "P", "P", "P", "P", "P", "P", "/", "R", "N", "B", "Q", "K", "B", "N",
      "R">>

RooksFen ==
    <<"r", "3", "k", "2", "r", "/", "8", "/", "8", "/", "8", "/", "8", "/",
      "8", "/", "8", "/", "R", "3", "K", "2", "R">>

PawnsFen ==
    <<"4", "k", "3", "/", "P", "7", "/", "8", "/", "8", "/", "3", "p", "4",
      "/", "8", "/", "4", "P", "2", "p", "/", "4", "K", "3">>

KnightFen ==
    <<"n", "3", "k", "2", "r", "/", "8", "/", "8", "/", "8", "/", "8", "/",
      "8", "/", "8", "/", "4", "K", "2", "R">>

\* A white pawn on its starting square behind a white rook that can take a
\* black pawn, a black rook on the open file next to the white king's, and
\* a white pawn one step from its last rank.
BlockedFen ==
    <<"4", "k", "r", "2", "/", "P", "7", "/", "8", "/", "8", "/", "8", "/",
      "3", "R", "2", "p", "1", "/", "3", "P", "4", "/", "4", "K", "3">>

StartPositions == {StandardFen, RooksFen, PawnsFen, KnightFen, BlockedFen}

\* The boards of the board tests: the two pawns of the en passant tests, and
\* a rook with a pawn to capture two squares up its file.
TwoPawnsFen ==
    <<"8", "/", "8", "/", "8", "/", "3", "p", "4", "/", "8", "/", "4", "P",
      "3", "/", "8", "/", "8">>

RookPawnFen ==
    <<"8", "/", "8", "/", "8", "/", "8", "/", "8", "/", "p", "7", "/", "8",
      "/", "R", "3", "K", "3">>

BoardPositions == {TwoPawnsFen, RookPawnFen}

PromotionChoices == {"Q", "R", "B", "N"}

NoCall ==
    [op |-> "init", piece |-> None, from |-> <<0, 0>>, to |-> <<0, 0>>,
     flag |-> FALSE, ret |-> None, err |-> "", before |-> <<>>]

Init ==
    /\ \E f \in StartPositions : game = NewGame(parse_fen(f).rows)
    /\ call = NoCall
    /\ prior = NoCall
    /\ calls = 0

Passes(g, from, to) ==
    /\ get_piece_at_square(g.board, from) # None
    /\ g.board.pieces[get_piece_at_square(g.board, from)].color = g.turn
    /\ to \in g.board.pieces[get_piece_at_square(g.board, from)].legal_moves

CallRecord(op, g, from, to, err) ==
    IF Passes(g, from, to)
    THEN [op |-> op, piece |-> get_piece_at_square(g.board, from),
          from |-> from, to |-> to, flag |-> TRUE, ret |-> None, err |-> err,
          before |-> <<>>]
    ELSE [op |-> op, piece |-> None, from |-> <<0, 0>>, to |-> <<0, 0>>,
          flag |-> TRUE, ret |-> None, err |-> err, before |-> <<>>]

\* The squares a call may name as the origin: every occupied square and one
\* empty square (all empty squares are turned away alike).
FromSquares(g) ==
    LET occupied == {p \in Squares : get_piece_at_square(g.board, p) # None}
    IN occupied \cup {CHOOSE p \in Squares : p \notin occupied}

\* The iteration order of legal_moves matters only to a call that gets as
\* far as the game-over probes.
OrdersFor(g, from, to) ==
    IF Passes(g, from, to) THEN SetOrders ELSE {"ascending"}

\* A call of ChessGame.make_move.
MakeMove ==
    /\ calls < MaxCalls
    /\ \E from \in FromSquares(game), to \in Squares :
         \E ord \in OrdersFor(game, from, to) :
           LET r == make_move(game, from, to, ord)
           IN /\ game' = r.g
              /\ call' = CallRecord("make_move", game, from, to, r.err)
              /\ prior' = call
              /\ calls' = calls + 1

\* run_game, MOUSEBUTTONUP: a pawn of the side to move is dropped on a square
\* of the last rank that is among its legal moves; the promotion box is
\* asked first and make_move is called with the choice pending.
DropPromotion ==
    /\ calls < MaxCalls
    /\ \E from \in FromSquares(game), to \in Squares :
         /\ to[1] \in {0, 7}
         /\ Passes(game, from, to)
         /\ game.board.pieces[get_piece_at_square(game.board, from)].name = "Pawn"
         /\ \E ord \in SetOrders, choice \in PromotionChoices :
              LET r == make_move([game EXCEPT !.promotion_choice = choice],
                                 from, to, ord)
              IN /\ game' = r.g
                 /\ call' = CallRecord("drop", game, from, to, r.err)
                 /\ prior' = call
                 /\ calls' = calls + 1

Next == MakeMove \/ DropPromotion

Spec == Init /\ [][Next]_vars

(***************************************************************************)
(* The board on its own, driven as the board tests drive it: calls of      *)
(* move_piece_to_square on any piece of the board towards a square near    *)
(* it, and revert_move right after a move made with change_en_passant      *)
(* False, as is_king_in_check_after_move pairs them.                       *)
(***************************************************************************)
BoardInit ==
    /\ \E f \in BoardPositions : game = NewGame(parse_fen(f).rows)
    /\ call = NoCall
    /\ prior = NoCall
    /\ calls = 0

Targets(b, id) ==
    {<<b.pieces[id].position[1] + i, b.pieces[id].position[2] + j>> :
        i \in (-MaxReach) .. MaxReach, j \in (-MaxSide) .. MaxSide}

\* A move made to be reverted whose revert has not been called yet.
RevertDue == call.op = "move" /\ ~call.flag /\ call.err = ""

BoardMove ==
    /\ calls < MaxCalls
    /\ ~RevertDue
    /\ \E i \in 1 .. Len(game.board.piece_list), flag \in BOOLEAN :
         \E d \in Targets(game.board, game.board.piece_list[i]) :
           LET id == game.board.piece_list[i]
               r == move_piece_to_square(game.board, id, d, flag)
           IN /\ game' = [game EXCEPT !.board = r.b]
              /\ call' = [op |-> "move", piece |-> id,
                          from |-> game.board.pieces[id].position, to |-> d,
                          flag |-> flag, ret |-> r.ret, err |-> r.err,
                          before |-> IF flag THEN <<>> ELSE <<game.board>>]
              /\ prior' = call
              /\ calls' = calls + 1

BoardRevert ==
    /\ RevertDue
    /\ LET r == revert_move(game.board, call.piece, call.from)
       IN /\ game' = [game EXCEPT !.board = r.b]
          /\ call' = [op |-> "revert", piece |-> call.piece,
                      from |-> call.to, to |-> call.from, flag |-> FALSE,
                      ret |-> None, err |-> r.err, before |-> call.before]
          /\ prior' = call
          /\ UNCHANGED calls

BoardNext == BoardMove \/ BoardRevert

BoardSpec == BoardInit /\ [][BoardNext]_vars

(***************************************************************************)
(* The board under all of its mutators, driven as test_board drives it:    *)
(* _place_piece, _remove_piece_at_square and promote_pawn next to the      *)
(* moves and reverts above.  A call record of these three keeps the board  *)
(* as it was before the call; the record of promote_pawn also keeps the    *)
(* choice.                                                                 *)
(***************************************************************************)
\* The board of test_promote_pawn: pawns on and off their last ranks and a
\* rook.
PromotionFen ==
    <<"P", "R", "6", "/", "1", "P", "6", "/", "8", "/", "8", "/", "8", "/",
      "8", "/", "1", "p", "6", "/", "p", "7">>

\* A black pawn on its last rank, in the corner next to the white king.
CornerFen ==
    <<"8", "/", "8", "/", "8", "/", "8", "/", "8", "/", "8", "/", "8", "/",
      "p", "3", "K", "3">>

EditPositions == {PromotionFen, RookPawnFen, CornerFen}

\* The pieces _place_piece is called with.
PlaceNames == {"Pawn", "Rook"}

PlaceSquares == {<<0, 0>>, <<0, 3>>, <<6, 0>>}

\* The choices promote_pawn is called with: the four it knows and one it
\* does not.
PromoteChoices == PromotionChoices \cup {"K"}

\* One square off the board, for _place_piece and _remove_piece_at_square.
OffBoard == <<8, 0>>

EditInit ==
    /\ \E f \in EditPositions : game = NewGame(parse_fen(f).rows)
    /\ call = NoCall
    /\ prior = NoCall
    /\ calls = 0

EditPlace ==
    /\ calls < MaxCalls
    /\ ~RevertDue
    /\ \E name \in PlaceNames, color \in {"white", "black"},
          position \in PlaceSquares \cup {OffBoard} :
         LET r == place_piece(game.board, NewPiece(name, color, position))
         IN /\ game' = [game EXCEPT !.board = r.b]
            /\ call' = [op |-> "place",
                        piece |-> IF r.err = "" THEN Len(r.b.pieces) ELSE None,
                        from |-> position, to |-> position, flag |-> FALSE,
                        ret |-> None, err |-> r.err,
                        before |-> <<game.board>>]
            /\ prior' = call
            /\ calls' = calls + 1

EditRemove ==
    /\ calls < MaxCalls
    /\ ~RevertDue
    /\ \E position \in FromSquares(game) \cup {OffBoard} :
         LET r == remove_piece_at_square(game.board, position)
         IN /\ game' = [game EXCEPT !.board = r.b]
            /\ call' = [op |-> "remove",
                        piece |-> get_piece_at_square(game.board, position),
                        from |-> position, to |-> position, flag |-> FALSE,
                        ret |-> None, err |-> r.err,
                        before |-> <<game.board>>]
            /\ prior' = call
            /\ calls' = calls + 1

\* promote_pawn is handed the piece found on a square, as the tests and
\* make_move hand it.
EditPromote ==
    /\ calls < MaxCalls
    /\ ~RevertDue
    /\ \E position \in Squares, choice \in PromoteChoices :
         /\ get_piece_at_square(game.board, position) # None
         /\ LET id == get_piece_at_square(game.board, position)
                r == promote_pawn(game.board, id, choice)
            IN /\ game' = [game EXCEPT !.board = r.b]
               /\ call' = [op |-> "promote", piece |-> id,
                           from |-> position, to |-> position,
                           flag |-> FALSE, ret |-> None, err |-> r.err,
                           before |-> <<game.board>>, choice |-> choice]
               /\ prior' = call
               /\ calls' = calls + 1

EditNext ==
    EditPlace \/ EditRemove \/ BoardMove \/ BoardRevert \/ EditPromote

EditSpec == EditInit /\ [][EditNext]_vars

(***************************************************************************)
(* run_game: the event loop of a local game.  A piece can be picked up     *)
(* only if it is of the colour to move (MOUSEBUTTONDOWN); dropping it on a *)
(* square asks for the promotion choice when the piece is a pawn bound for *)
(* a last rank, calls make_move inside try / except and then looks at the  *)
(* end-of-game conditions.  The local flag is_game_over is set exactly     *)
(* when that test succeeds, the test reads nothing but the game, it is run *)
(* after every drop and no drop is handled once the flag is set: so the    *)
(* flag is the test applied to the game as it stands.                      *)
(***************************************************************************)
FiftyMoveLimit == 50

MaxDirectCalls == 9

\* run_game, lines 399-412.
game_status(g) ==
    IF g.is_checkmate THEN "checkmate"
    ELSE IF g.is_stalemate THEN "stalemate"
    ELSE IF g.is_threefold_repetition THEN "threefold repetition"
    ELSE IF g.fifty_move_counter >= FiftyMoveLimit THEN "fifty move rule"
    ELSE ""

\* Fault variant of is_game_over: the loop never stops handling drops.
never_game_over(g) == FALSE

is_game_over(g) == game_status(g) # ""

\* White mates with Ra1-a8; the rook and the black king can also shuffle.
MateFen ==
    <<"7", "k", "/", "8", "/", "6", "K", "1", "/", "8", "/", "8", "/", "8",
      "/", "8", "/", "R", "7">>

\* White stalemates with Rf1-g1.
StalemateFen ==
    <<"7", "k", "/", "8", "/", "7", "K", "/", "8", "/", "8", "/", "8", "/",
      "3", "R", "4", "/", "5", "R", "2">>

\* Two kings far apart.
WalkFen ==
    <<"k", "7", "/", "8", "/", "8", "/", "8", "/", "8", "/", "6", "K", "1",
      "/", "8", "/", "8">>

\* Two kings far apart and a white pawn standing on its last rank.
LastRankFen ==
    <<"k", "6", "P", "/", "8", "/", "8", "/", "8", "/", "8", "/", "6", "K", "1",
      "/", "8", "/", "8">>

RunPositions == {MateFen, StalemateFen, WalkFen, PawnsFen, LastRankFen}

\* The drops the players make, as <<from, to>>: the rook's mate, the rook's
\* and the black king's shuffles, the stalemating rook move, a round of
\* five squares for the white king and a round of four for the black king
\* (the last of which is also the a7 pawn's step to its last rank), and
\* four drops that are turned away: a rook dropped off its lines, each king
\* dropped two squares away, the black king dropped next to the white one.
DropMoves ==
    {<<(<<7, 0>>), (<<0, 0>>)>>,
     <<(<<7, 0>>), (<<6, 0>>)>>, <<(<<6, 0>>), (<<7, 0>>)>>,
     <<(<<0, 7>>), (<<0, 6>>)>>, <<(<<0, 6>>), (<<0, 7>>)>>,
     <<(<<7, 5>>), (<<7, 6>>)>>,
     <<(<<5, 6>>), (<<5, 7>>)>>, <<(<<5, 7>>), (<<6, 7>>)>>,
     <<(<<6, 7>>), (<<7, 6>>)>>, <<(<<7, 6>>), (<<6, 6>>)>>,
     <<(<<6, 6>>), (<<5, 6>>)>>,
     <<(<<0, 0>>), (<<0, 1>>)>>, <<(<<0, 1>>), (<<1, 1>>)>>,
     <<(<<1, 1>>), (<<1, 0>>)>>, <<(<<1, 0>>), (<<0, 0>>)>>,
     <<(<<7, 0>>), (<<6, 1>>)>>, <<(<<6, 6>>), (<<4, 6>>)>>,
     <<(<<0, 1>>), (<<0, 3>>)>>, <<(<<0, 7>>), (<<1, 7>>)>>}

RunInit ==
    /\ \E f \in RunPositions : game = NewGame(parse_fen(f).rows)
    /\ call = NoCall
    /\ prior = NoCall
    /\ calls = 0

\* run_game, lines 376-385: the promotion box is asked when the dragged
\* piece is a pawn dropped on a last rank that is among its legal moves.
DropChoices(g, from, to) ==
    IF /\ g.board.pieces[get_piece_at_square(g.board, from)].name = "Pawn"
       /\ to[1] \in {0, 7}
       /\ to \in g.board.pieces[get_piece_at_square(g.board, from)].legal_moves
    THEN PromotionChoices
    ELSE {g.promotion_choice}

\* run_game, MOUSEBUTTONDOWN to MOUSEBUTTONUP: the whole handling of a
\* piece picked up on one square and dropped on another.  The loop does not
\* count its drops.
Drop ==
    /\ call.op # "make_move"
    /\ ~is_game_over(game)
    /\ \E mv \in DropMoves :
         /\ get_piece_at_square(game.board, mv[1]) # None
         /\ game.board.pieces[get_piece_at_square(game.board, mv[1])].color
                = game.turn
         /\ \E ord \in OrdersFor(game, mv[1], mv[2]),
               choice \in DropChoices(game, mv[1], mv[2]) :
              LET r == make_move([game EXCEPT !.promotion_choice = choice],
                                 mv[1], mv[2], ord)
              IN /\ game' = r.g
                 /\ call' = CallRecord("drop", game, mv[1], mv[2], r.err)
                 /\ prior' = call
                 /\ UNCHANGED calls

\* A game is driven by the loop or, as the tests drive it, by direct calls of
\* make_move, which need not be for the side to move; never by both.
DirectMove ==
    /\ call.op # "drop"
    /\ calls < MaxDirectCalls
    /\ \E mv \in DropMoves :
         \E ord \in OrdersFor(game, mv[1], mv[2]) :
           LET r == make_move(game, mv[1], mv[2], ord)
           IN /\ game' = r.g
              /\ call' = CallRecord("make_move", game, mv[1], mv[2], r.err)
              /\ prior' = call
              /\ calls' = calls + 1

RunNext == Drop \/ DirectMove

RunSpec == RunInit /\ [][RunNext]_vars

(***************************************************************************)
(* The FEN import and export on their own: Board.parse_fen applied to      *)
(* placement strings, well formed and not, and get_fen_board_state applied *)
(* to boards.  The boards are those of the positions below, with the en    *)
(* passant target the board may carry, and what _place_piece and           *)
(* _remove_piece_at_square make of them.  The record of a parse_fen call   *)
(* keeps the string and, in ret, the rows returned; the record of an       *)
(* export keeps the dictionary returned.                                   *)
(***************************************************************************)
EmptyFen ==
    <<"8", "/", "8", "/", "8", "/", "8", "/", "8", "/", "8", "/", "8", "/",
      "8">>

\* The standard position after 1. e4 e5.
DoubleStepFen ==
    <<"r", "n", "b", "q", "k", "b", "n", "r", "/", "p", "p", "p", "p", "1",
      "p", "p", "p", "/", "8", "/", "4", "p", "3", "/", "4", "P", "3", "/",
      "8", "/", "P", "P", "P", "P", "1", "P", "P", "P", "/", "R", "N", "B",
      "Q", "K", "B", "N", "R">>

FenPositions ==
    {StandardFen, RooksFen, PawnsFen, KnightFen, TwoPawnsFen, RookPawnFen,
     PromotionFen, CornerFen, MateFen, StalemateFen, WalkFen, LastRankFen,
     EmptyFen, DoubleStepFen}

\* The index of the first "/" of a string.
FirstSlash(str) ==
    CHOOSE i \in 1 .. Len(str) : str[i] = "/" /\ \A j \in 1 .. (i - 1) : str[j] # "/"

\* The index of the last "/" of a string.
LastSlash(str) ==
    CHOOSE i \in 1 .. Len(str) : str[i] = "/" /\ \A j \in (i + 1) .. Len(str) : str[j] # "/"

\* Ranks to put in the place of the first rank of a string: too short, too
\* long, with an empty run of squares in front of or behind a piece, with a
\* run of squares written in two digits, with a character that names no
\* piece, and empty.
OddRanks ==
    {<<"7">>, <<"9">>, <<"p", "8">>, <<"8", "p">>, <<"4", "4">>,
     <<"0", "8">>, <<"x", "7">>, <<"p", "p", "p", "p">>, <<>>}

\* The strings parse_fen is called with: the positions, and strings made of
\* two of them by taking the last rank away, by adding a ninth rank and by
\* changing the first rank.
FenStrings ==
    FenPositions
      \cup UNION {{SubSeq(f, 1, LastSlash(f) - 1), f \o <<"/", "8">>}
                    \cup {r \o SubSeq(f, FirstSlash(f), Len(f)) : r \in OddRanks}
                  : f \in {StandardFen, RookPawnFen}}

\* The pawns that can be the en passant target of a board: a white pawn on
\* rank 4 or a black pawn on rank 3, the ranks a two-square advance ends on.
DoubleStepped(b) ==
    {id \in DOMAIN b.pieces :
        /\ b.pieces[id].name = "Pawn"
        /\ b.pieces[id].position[1] = IF b.pieces[id].color = "white" THEN 4 ELSE 3}

FenInit ==
    /\ \E f \in FenPositions :
         \E ep \in DoubleStepped(NewGame(parse_fen(f).rows).board) \cup {None} :
           game = [NewGame(parse_fen(f).rows) EXCEPT !.board.en_passant_piece = ep]
    /\ call = NoCall
    /\ prior = NoCall
    /\ calls = 0

\* A call of Board.parse_fen.
FenParse ==
    /\ calls < MaxCalls
    /\ \E fen_string \in FenStrings :
         LET r == parse_fen(fen_string)
         IN call' = [op |-> "parse_fen", piece |-> None, from |-> <<0, 0>>,
                     to |-> <<0, 0>>, flag |-> FALSE,
                     ret |-> IF r.err = "" THEN r.rows ELSE <<>>,
                     err |-> r.err, before |-> <<>>,
                     fen_string |-> fen_string]
    /\ prior' = call
    /\ calls' = calls + 1
    /\ UNCHANGED game

\* A call of Board.get_fen_board_state.
FenExport ==
    /\ calls < MaxCalls
    /\ call' = [op |-> "get_fen_board_state", piece |-> None, from |-> <<0, 0>>,
                to |-> <<0, 0>>, flag |-> FALSE,
                ret |-> get_fen_board_state(game.board),
                err |-> "", before |-> <<>>]
    /\ prior' = call
    /\ calls' = calls + 1
    /\ UNCHANGED game

FenNext == FenParse \/ FenExport \/ EditPlace \/ EditRemove

FenSpec == FenInit /\ [][FenNext]_vars

(***************************************************************************)
(* chess_logic.py driven on its own, as the logic tests drive it: calls of *)
(* is_king_in_check_after_move for a piece and one of its cached legal     *)
(* moves, of is_checkmate and of is_stalemate, between calls of            *)
(* move_piece_to_square and revert_move.  Board.en_passant_piece is a      *)
(* public attribute; the boards start with it unset or set to a pawn that  *)
(* stands where a two-square advance ends.                                 *)
(***************************************************************************)
\* The black king is mated by a rook next to it that a second rook guards.
MatedFen ==
    <<"R", "5", "R", "k", "/", "8", "/", "6", "K", "1", "/", "8", "/", "8",
      "/", "8", "/", "8", "/", "8">>

\* The two kings, a black pawn that stands where a two-square advance ends,
\* and on its file a white pawn on its starting square behind a rook.
TargetFen ==
    <<"4", "k", "3", "/", "8", "/", "8", "/", "3", "p", "4", "/", "8", "/",
      "3", "R", "4", "/", "3", "P", "4", "/", "4", "K", "3">>

LogicPositions == {RookPawnFen, MatedFen, TargetFen}

LogicInit ==
    /\ \E f \in LogicPositions :
         \E ep \in DoubleStepped(NewGame(parse_fen(f).rows).board) \cup {None} :
           game = [NewGame(parse_fen(f).rows) EXCEPT !.board.en_passant_piece = ep]
    /\ call = NoCall
    /\ prior = NoCall
    /\ calls = 0

\* A call of is_king_in_check_after_move; the board object it is given is
\* the one it moves on.
LogicProbe ==
    /\ calls < MaxCalls
    /\ ~RevertDue
    /\ \E i \in 1 .. Len(game.board.piece_list) :
         \E m \in game.board.pieces[game.board.piece_list[i]].legal_moves :
           LET id == game.board.piece_list[i]
               r == is_king_in_check_after_move(game.board, id, m)
           IN /\ game' = [game EXCEPT !.board = r.b]
              /\ call' = [op |-> "is_king_in_check_after_move", piece |-> id,
                          from |-> game.board.pieces[id].position, to |-> m,
                          flag |-> FALSE, ret |-> r.res, err |-> r.err,
                          before |-> <<game.board>>]
              /\ prior' = call
              /\ calls' = calls + 1

\* A call of is_checkmate or of is_stalemate.
LogicSearch ==
    /\ calls < MaxCalls
    /\ ~RevertDue
    /\ \E color \in {"white", "black"}, ord \in SetOrders :
         \E op \in {"is_checkmate", "is_stalemate"} :
           LET r == IF op = "is_checkmate"
                    THEN is_checkmate(game.board, color, ord)
                    ELSE is_stalemate(game.board, color, ord)
           IN /\ game' = [game EXCEPT !.board = r.b]
              /\ call' = [op |-> op, piece |-> None, from |-> <<0, 0>>,
                          to |-> <<0, 0>>, flag |-> FALSE, ret |-> r.res,
                          err |-> r.err, before |-> <<game.board>>,
                          color |-> color]
              /\ prior' = call
              /\ calls' = calls + 1

LogicNext == LogicProbe \/ LogicSearch \/ BoardMove \/ BoardRevert

LogicSpec == LogicInit /\ [][LogicNext]_vars

(***************************************************************************)
(* run_multiplayer: two processes, one playing white (the server) and one  *)
(* playing black (the client), each with its own ChessGame built from the  *)
(* same starting position file and joined by one TCP connection.  Under    *)
(* SessionSpec game[c] is the process whose player_color is c: its game,   *)
(* its loop flags and the bytes that were sent to its socket and that it   *)
(* has not yet received.  call records the last event handled, prior the   *)
(* moves each game has executed, and calls counts the events handled.      *)
(***************************************************************************)
Players == {"white", "black"}

MaxEvents == 5

\* Python's str() of a one-digit number and int() of a digit.
str_of(n) == <<"0", "1", "2", "3", "4", "5", "6", "7", "8", "9">>[n + 1]

int_of(ch) == CHOOSE n \in 0 .. 9 : str_of(n) = ch

\* ClientConnect.send_move and ServerConnect.send_move: the bytes written.
send_move(old_pos, new_pos, promotion_choice) ==
    <<str_of(old_pos[1]), str_of(old_pos[2]), str_of(new_pos[1]), str_of(new_pos[2]),
      IF promotion_choice # NoChoice THEN promotion_choice ELSE "0">>

\* ClientConnect.receive_move and ServerConnect.receive_move: recv takes all
\* the bytes that have arrived and the first five are read.
receive_move(data) ==
    [old_position |-> <<int_of(data[1]), int_of(data[2])>>,
     new_position |-> <<int_of(data[3]), int_of(data[4])>>,
     promotion_choice |-> IF data[5] # "0" THEN data[5] ELSE NoChoice]

\* The drops of the two players: those of a local game, a rook's capture up
\* its file and a king's step beside its pawn.
SessionMoves ==
    DropMoves \cup {<<(<<7, 7>>), (<<0, 7>>)>>, <<(<<7, 4>>), (<<6, 3>>)>>}

SessionPositions == {KnightFen, WalkFen, PawnsFen, MateFen}

NewPeer(rows) ==
    [game |-> NewGame(rows), is_running |-> TRUE, is_game_over |-> FALSE,
     socket |-> <<>>]

SessionInit ==
    /\ \E f \in SessionPositions :
         game = [c \in Players |-> NewPeer(parse_fen(f).rows)]
    /\ call = [op |-> "init", peer |-> "", from |-> <<0, 0>>, to |-> <<0, 0>>,
               choice |-> NoChoice, err |-> "", applied |-> FALSE,
               sent |-> FALSE, turn |-> ""]
    /\ prior = [c \in Players |-> <<>>]
    /\ calls = 0

\* A call of make_move has executed a move when it has changed the placement
\* of the pieces or the side to move.
Executed(g, after) ==
    \/ get_fen_board(after.board) # get_fen_board(g.board)
    \/ after.turn # g.turn

Moves(c, g, after, from, to, choice, err) ==
    IF Executed(g, after)
    THEN [prior EXCEPT ![c] = Append(@, <<from, to, choice, err>>)]
    ELSE prior

\* run_multiplayer, lines 470-552: the player whose turn it is in its own
\* game drops one of its pieces; make_move is called with the choice of the
\* promotion box pending and the move is sent if make_move returns.  The
\* session lasts while both loops run.
PeerDrop ==
    /\ calls < MaxEvents
    /\ \A c \in Players : game[c].is_running
    /\ \E c \in Players, mv \in SessionMoves :
         /\ ~game[c].is_game_over
         /\ game[c].game.turn = c
         /\ get_piece_at_square(game[c].game.board, mv[1]) # None
         /\ game[c].game.board.pieces[
                get_piece_at_square(game[c].game.board, mv[1])].color = c
         /\ \E ord \in OrdersFor(game[c].game, mv[1], mv[2]),
               choice \in DropChoices(game[c].game, mv[1], mv[2]) :
              LET r == make_move([game[c].game EXCEPT !.promotion_choice = choice],
                                 mv[1], mv[2], ord)
              IN /\ game' = [game EXCEPT
                               ![c].game = r.g,
                               ![c].is_game_over = is_game_over(r.g),
                               ![OtherColor(c)].socket =
                                   IF r.err = ""
                                   THEN @ \o send_move(mv[1], mv[2], choice)
                                   ELSE @]
                 /\ call' = [op |-> "drop", peer |-> c, from |-> mv[1],
                             to |-> mv[2], choice |-> choice, err |-> r.err,
                             applied |-> Executed(game[c].game, r.g),
                             sent |-> r.err = "", turn |-> game[c].game.turn]
                 /\ prior' = Moves(c, game[c].game, r.g, mv[1], mv[2], choice,
                                   r.err)
                 /\ calls' = calls + 1

\* run_multiplayer, lines 557-587: an event arrives while it is the other
\* player's turn in the process's own game.  With nothing to read, recv
\* raises BlockingIOError and the event is passed over.  Any other error is
\* caught by a handler that reads ui.dragged_piece, which is None whenever
\* it is not the process's turn: the handler raises AttributeError and the
\* process ends.
PeerReceive ==
    /\ calls < MaxEvents
    /\ \A c \in Players : game[c].is_running
    /\ \E c \in Players :
         /\ ~game[c].is_game_over
         /\ game[c].game.turn # c
         /\ IF game[c].socket = <<>>
            THEN /\ call' = [op |-> "receive", peer |-> c, from |-> <<0, 0>>,
                             to |-> <<0, 0>>, choice |-> NoChoice,
                             err |-> "BlockingIOError", applied |-> FALSE,
                             sent |-> FALSE, turn |-> game[c].game.turn]
                 /\ calls' = calls + 1
                 /\ UNCHANGED <<game, prior>>
            ELSE LET move == receive_move(game[c].socket)
                 IN \E ord \in OrdersFor(game[c].game, move.old_position,
                                         move.new_position) :
                      LET r == make_move(
                                   [game[c].game EXCEPT
                                      !.promotion_choice = move.promotion_choice],
                                   move.old_position, move.new_position, ord)
                      IN /\ game' = [game EXCEPT
                                       ![c].game = r.g,
                                       ![c].socket = <<>>,
                                       ![c].is_game_over =
                                           IF r.err = "" THEN is_game_over(r.g)
                                           ELSE @,
                                       ![c].is_running = r.err = ""]
                         /\ call' = [op |-> "receive", peer |-> c,
                                     from |-> move.old_position,
                                     to |-> move.new_position,
                                     choice |-> move.promotion_choice,
                                     err |-> r.err,
                                     applied |-> Executed(game[c].game, r.g),
                                     sent |-> FALSE, turn |-> game[c].game.turn]
                         /\ prior' = Moves(c, game[c].game, r.g,
                                           move.old_position, move.new_position,
                                           move.promotion_choice, r.err)
                         /\ calls' = calls + 1

SessionNext == PeerDrop \/ PeerReceive

SessionSpec == SessionInit /\ [][SessionNext]_vars

(***************************************************************************)
(* Properties of ChessGame.make_move, checked under Spec.                  *)
(***************************************************************************)
Rejections == {"NoPieceAtSquare", "WrongTurn", "IllegalMove", "SelfCheck"}

MakeMoveCalls == {"make_move", "drop"}

\* The parts of the game a rejected move must leave alone.
GameView(g) ==
    <<g.turn, g.halfmove_counter, g.fullmove_counter, g.fifty_move_counter,
      g.captured_pieces, g.position_log, g.is_checkmate, g.is_stalemate,
      g.is_threefold_repetition, g.board.board_table,
      [i \in DOMAIN g.board.pieces |-> g.board.pieces[i].position],
      [i \in DOMAIN g.board.pieces |-> g.board.pieces[i].has_moved],
      g.board.en_passant_piece>>

\* C1: a make_move call rejected with NoPieceAtSquare, WrongTurn, IllegalMove
\* or SelfCheck leaves the turn, the halfmove, fullmove and fifty-move
\* counters, the captured lists, the position log, the end-of-game flags,
\* the piece placement, the has-moved flags and the en passant target as
\* they were before the call.
C1_RejectedMoveChangesNothing ==
    [][(call'.op \in MakeMoveCalls /\ call'.err \in Rejections)
          => GameView(game') = GameView(game)]_vars

\* A move of a piece that had never moved was probed on the board, found to
\* expose the king and rejected.
C1_Witness ==
    /\ call.op = "make_move"
    /\ call.err = "SelfCheck"
    /\ game.board.pieces[call.piece].has_moved = "false"

OnBoard(b) == {b.piece_list[i] : i \in 1 .. Len(b.piece_list)}

\* C2 as stated: no cached legal move of a piece on the board leaves the
\* piece's own king attacked when it is played and tested as
\* is_king_in_check_after_move tests it.
C2_CachedMovesKeepKingSafe ==
    \A id \in OnBoard(game.board) :
        \A d \in game.board.pieces[id].legal_moves :
            is_king_in_check_after_move(game.board, id, d).err = ""
                => ~is_king_in_check_after_move(game.board, id, d).res

\* C2: every cached legal move of a piece on the board is a square other
\* than the piece's own that passes is_legal_move (not held by a piece of
\* the same colour, path not blocked) and, for every piece but the king,
\* the cache is exactly the piece's possible moves so filtered.  The king's
\* safety is not part of the filter.
C2_CachedMovesPassIsLegalMove ==
    \A id \in OnBoard(game.board) :
        /\ \A d \in game.board.pieces[id].legal_moves :
               d # game.board.pieces[id].position /\ is_legal_move(game.board, id, d)
        /\ game.board.pieces[id].name # "King"
               => game.board.pieces[id].legal_moves = generate_legal_moves(game.board, id)

\* After a completed move, a piece holds a cached move that leaves its own
\* king attacked.
C2_Witness ==
    /\ game.halfmove_counter > 0
    /\ \E id \in OnBoard(game.board) :
           \E d \in game.board.pieces[id].legal_moves :
               /\ is_king_in_check_after_move(game.board, id, d).err = ""
               /\ is_king_in_check_after_move(game.board, id, d).res

\* C3: a make_move call that returns normally completes a move; a completed
\* move (the halfmove counter advances) is the move of a piece of the colour
\* whose turn it was, that stands on the destination afterwards, and flips
\* the turn once; the turn changes in no other way, so the positions logged
\* alternate between the colours, starting from white to move.
C3_TurnsAlternate ==
    [][/\ (call'.op \in MakeMoveCalls /\ call'.err = "")
             => game'.halfmove_counter = game.halfmove_counter + 1
       /\ game'.halfmove_counter # game.halfmove_counter
             => /\ call'.op \in MakeMoveCalls
                /\ call'.piece # None
                /\ game.board.pieces[call'.piece].color = game.turn
                /\ game'.board.pieces[call'.piece].position = call'.to
                /\ get_piece_at_square(game'.board, call'.to) = call'.piece
                /\ game'.turn = OtherColor(game.turn)
                /\ game'.halfmove_counter = game.halfmove_counter + 1
       /\ game'.halfmove_counter = game.halfmove_counter
             => game'.turn = game.turn
       /\ game'.position_log[1].turn = "w"
       /\ \A i \in 1 .. Len(game'.position_log) - 1 :
              game'.position_log[i].turn # game'.position_log[i + 1].turn]_vars

\* White and then black have each completed a move.
C3_Witness ==
    /\ game.halfmove_counter = 2
    /\ call.err = ""
    /\ prior.err = ""
    /\ game.board.pieces[call.piece].color = "black"
    /\ game.board.pieces[prior.piece].color = "white"

\* The castling destinations among a king's cached moves: two files from
\* the king along its rank.
CastlingDestinations(b, id) ==
    {d \in b.pieces[id].legal_moves :
        /\ d[1] = b.pieces[id].position[1]
        /\ Abs(d[2] - b.pieces[id].position[2]) = 2}

\* The corner a castling destination points to.
Corner(b, id, d) ==
    <<b.pieces[id].position[1], IF d[2] < b.pieces[id].position[2] THEN 0 ELSE 7>>

Kings(b) == {id \in OnBoard(b) : b.pieces[id].name = "King"}

UnmovedOwnRookAt(b, id, position) ==
    /\ get_piece_at_square(b, position) # None
    /\ b.pieces[get_piece_at_square(b, position)].name = "Rook"
    /\ b.pieces[get_piece_at_square(b, position)].color = b.pieces[id].color
    /\ b.pieces[get_piece_at_square(b, position)].has_moved = "false"

\* C4: a castling destination is among a king's cached legal moves only if
\* the king has not moved and an unmoved rook of the king's colour stands on
\* the corner of the king's rank on that side.
C4_CastlingNeedsUnmovedKingAndRook ==
    \A id \in Kings(game.board) :
        \A d \in CastlingDestinations(game.board, id) :
            /\ game.board.pieces[id].has_moved = "false"
            /\ UnmovedOwnRookAt(game.board, id, Corner(game.board, id, d))

\* A square is attacked in the current position when it is among the legal
\* moves, computed on the board as it stands, of a piece of the other colour.
AttackedNow(b, position, color) ==
    \E q \in OnBoard(b) :
        /\ b.pieces[q].color # color
        /\ position \in generate_legal_moves(b, q)

\* C5: a castling destination is among a king's cached legal moves only if,
\* in the current position, the squares strictly between the king and the
\* corner are empty and neither the king's square, nor the square it
\* crosses, nor the destination is attacked by a piece of the other colour.
C5_CastlingNeedsClearAndSafePath ==
    \A id \in Kings(game.board) :
        \A d \in CastlingDestinations(game.board, id) :
            LET p == game.board.pieces[id].position
                c == Corner(game.board, id, d)
            IN /\ \A f \in (Min(p[2], c[2]) + 1) .. (Max(p[2], c[2]) - 1) :
                      get_piece_at_square(game.board, <<p[1], f>>) = None
               /\ \A f \in Min(p[2], d[2]) .. Max(p[2], d[2]) :
                      ~AttackedNow(game.board, <<p[1], f>>, game.board.pieces[id].color)

Rooks(b) == {id \in DOMAIN b.pieces : b.pieces[id].name = "Rook"}

\* The call completed the move of a king: the piece and how far it went.
KingMoveCompleted(files) ==
    /\ call'.op \in MakeMoveCalls
    /\ game'.halfmove_counter # game.halfmove_counter
    /\ call'.piece # None
    /\ game.board.pieces[call'.piece].name = "King"
    /\ call'.to[1] = call'.from[1]
    /\ Abs(call'.to[2] - call'.from[2]) = files

\* C6: when make_move completes the move of an unmoved king two files along
\* its rank with the unmoved rook of its colour on that side's corner, the
\* king is on file 2 (queenside) or 6 (kingside), that rook on file 3 or 5
\* of the same rank, the corner and the king's start square are empty, the
\* turn has flipped and one snapshot was appended to the position log; the
\* completed move of a king by one file changes the square of no rook.
C6_CastlingMovesKingAndRook ==
    [][/\ (/\ KingMoveCompleted(2)
           /\ game.board.pieces[call'.piece].has_moved = "false"
           /\ UnmovedOwnRookAt(game.board, call'.piece,
                               Corner(game.board, call'.piece, call'.to)))
          => LET queenside == call'.to[2] < call'.from[2]
                 r == call'.from[1]
                 corner == Corner(game.board, call'.piece, call'.to)
                 rook == get_piece_at_square(game.board, corner)
             IN /\ game'.board.pieces[call'.piece].position =
                       <<r, IF queenside THEN 2 ELSE 6>>
                /\ get_piece_at_square(game'.board, <<r, IF queenside THEN 2 ELSE 6>>)
                       = call'.piece
                /\ game'.board.pieces[rook].position = <<r, IF queenside THEN 3 ELSE 5>>
                /\ get_piece_at_square(game'.board, <<r, IF queenside THEN 3 ELSE 5>>)
                       = rook
                /\ get_piece_at_square(game'.board, corner) = None
                /\ get_piece_at_square(game'.board, call'.from) = None
                /\ game'.turn = OtherColor(game.turn)
                /\ Len(game'.position_log) = Len(game.position_log) + 1
       /\ KingMoveCompleted(1)
          => \A rook \in Rooks(game.board) :
                 game'.board.pieces[rook].position = game.board.pieces[rook].position
      ]_vars

\* A castle has just been completed: the king stands two files from where
\* it started and the rook has left the corner for the square beside it.
C6_Witness ==
    /\ call.op = "make_move"
    /\ call.err = ""
    /\ call.piece # None
    /\ game.board.pieces[call.piece].name = "King"
    /\ Abs(call.to[2] - call.from[2]) = 2
    /\ game.board.pieces[call.piece].position = call.to
    /\ get_piece_at_square(game.board, <<call.to[1], (call.from[2] + call.to[2]) \div 2>>) # None
    /\ game.board.pieces[get_piece_at_square(game.board,
           <<call.to[1], (call.from[2] + call.to[2]) \div 2>>)].name = "Rook"

\* C7: once make_move is asked, without the king being exposed, for a cached
\* two-rank advance of a pawn of the side to move, the pawn stands on its
\* destination and every pawn of the other colour beside it on that rank has
\* the square the pawn skipped among its possible moves and its cached legal
\* moves.
C7_EnPassantOfferedAfterDoubleStep ==
    [][(/\ call'.op \in MakeMoveCalls
        /\ call'.piece # None
        /\ game.board.pieces[call'.piece].name = "Pawn"
        /\ Abs(call'.to[1] - call'.from[1]) = 2
        /\ call'.err # "SelfCheck")
          => /\ game'.board.pieces[call'.piece].position = call'.to
             /\ \A q \in OnBoard(game'.board) :
                    (/\ game'.board.pieces[q].name = "Pawn"
                     /\ game'.board.pieces[q].color # game.board.pieces[call'.piece].color
                     /\ game'.board.pieces[q].position[1] = call'.to[1]
                     /\ Abs(game'.board.pieces[q].position[2] - call'.to[2]) = 1)
                      => LET skipped == <<(call'.from[1] + call'.to[1]) \div 2, call'.to[2]>>
                         IN /\ skipped \in generate_possible_moves(game'.board, q)
                            /\ skipped \in game'.board.pieces[q].legal_moves
      ]_vars

(***************************************************************************)
(* Properties of Board.move_piece_to_square and Board.revert_move, checked *)
(* under BoardSpec.                                                        *)
(***************************************************************************)
\* The call asks a pawn to advance two ranks along its file.
DoubleStep(b, c) ==
    /\ c.op = "move"
    /\ c.piece # None
    /\ b.pieces[c.piece].name = "Pawn"
    /\ InRange(c.to)
    /\ c.to[2] = c.from[2]
    /\ c.to[1] - c.from[1] = (IF b.pieces[c.piece].color = "white" THEN -2 ELSE 2)

\* C8: when, right after a pawn was moved two ranks forward with
\* change_en_passant true, a pawn of the other colour standing beside that
\* pawn's destination is moved to the empty square the pawn skipped,
\* move_piece_to_square returns the first pawn as the captured piece, that
\* pawn is in neither the grid nor the piece list, its square is empty and
\* the capturing pawn stands on the skipped square.
C8_EnPassantCaptureTakesTarget ==
    [][(/\ DoubleStep(game.board, call)
        /\ call.flag
        /\ call'.op = "move"
        /\ game.board.pieces[call'.piece].name = "Pawn"
        /\ game.board.pieces[call'.piece].color # game.board.pieces[call.piece].color
        /\ call'.from[1] = call.to[1]
        /\ Abs(call'.from[2] - call.to[2]) = 1
        /\ call'.to = <<(call.from[1] + call.to[1]) \div 2, call.to[2]>>
        /\ get_piece_at_square(game.board, call'.to) = None)
          => /\ call'.ret = call.piece
             /\ call.piece \notin OnBoard(game'.board)
             /\ \A p \in Squares : get_piece_at_square(game'.board, p) # call.piece
             /\ get_piece_at_square(game'.board, call.to) = None
             /\ get_piece_at_square(game'.board, call'.to) = call'.piece
             /\ game'.board.pieces[call'.piece].position = call'.to
      ]_vars

\* C9: after every call of move_piece_to_square with change_en_passant true
\* and a destination on the board, the en passant target is the moved piece
\* if the move was a pawn's advance of two ranks and None otherwise.
C9_EnPassantTargetFollowsDoubleStep ==
    [][(call'.op = "move" /\ call'.flag /\ InRange(call'.to))
          => game'.board.en_passant_piece =
                 (IF DoubleStep(game.board, call') THEN call'.piece ELSE None)
      ]_vars

\* What the revert has to put back: every square's occupant, every piece's
\* position and has-moved flag, and the set of pieces on the board.
BoardView(b) ==
    <<b.board_table,
      [i \in DOMAIN b.pieces |-> b.pieces[i].position],
      [i \in DOMAIN b.pieces |-> b.pieces[i].has_moved],
      OnBoard(b)>>

\* C10: move_piece_to_square with change_en_passant false followed at once
\* by revert_move of the same piece to the square it came from leaves every
\* square's occupant, every piece's position, the set of pieces on the board
\* and the piece's has-moved flag as they were before the move; a move that
\* raises for a destination off the board or for a piece that has no
\* has_moved attribute has changed none of them, and the pair ends there.
C10_RevertRestoresBoard ==
    [][/\ call'.op = "revert"
             => /\ call'.err = ""
                /\ call.op = "move" /\ ~call.flag
                /\ call'.piece = call.piece
                /\ BoardView(game'.board) = BoardView(call'.before[1])
       /\ (call'.op = "move" /\ ~call'.flag /\ call'.err = "")
             => /\ call'.before = <<game.board>>
                /\ game'.board.pieces[call'.piece].position = call'.to
       /\ (/\ call'.op = "move" /\ ~call'.flag
           /\ (~InRange(call'.to) \/ call'.err = "AttributeError"))
             => /\ call'.err # ""
                /\ BoardView(game'.board) = BoardView(game.board)
      ]_vars

\* The move reverted was the piece's first and captured the piece that stood
\* on its destination.
C10_Witness ==
    /\ call.op = "revert"
    /\ prior.op = "move"
    /\ prior.ret # None
    /\ prior.ret # call.piece
    /\ call.before[1].pieces[call.piece].has_moved = "false"
    /\ get_piece_at_square(game.board, prior.to) = prior.ret

(***************************************************************************)
(* Properties of the board's mutators, checked under EditSpec.             *)
(***************************************************************************)
\* The cells of the grid that hold the piece.
CellsOf(b, id) == {p \in Squares : b.board_table[p] = id}

\* C11: after any sequence of place, remove, move, revert (right after its
\* move) and promote calls, a piece is in the piece list iff exactly one
\* cell of the grid holds it and that cell is the piece's position; no
\* piece is in two cells and no cell holds a piece that is not in the
\* piece list.
C11_GridAgreesWithPieceList ==
    /\ \A id \in DOMAIN game.board.pieces :
           /\ InList(game.board.piece_list, id)
                  <=> /\ Cardinality(CellsOf(game.board, id)) = 1
                      /\ CellsOf(game.board, id) = {game.board.pieces[id].position}
           /\ Cardinality(CellsOf(game.board, id)) <= 1
    /\ \A p \in Squares :
           game.board.board_table[p] # None
               => InList(game.board.piece_list, game.board.board_table[p])

\* C12: after every completed mutation of the board (place, remove, move,
\* revert, promote, populate) the cached legal_moves of each piece on the
\* board is the set generate_legal_moves computes on the board as it then
\* is, the king's castling squares included.
C12_CachedMovesAreFresh ==
    call.err = ""
        => \A id \in OnBoard(game.board) :
               game.board.pieces[id].legal_moves
                   = generate_legal_moves(game.board, id)

(***************************************************************************)
(* Properties of the end-of-game tests and of the counters, checked under  *)
(* RunSpec and Spec.                                                       *)
(***************************************************************************)
\* Some piece of the colour has a cached legal move after which, played and
\* tested on the board as it stands, the colour's king is not attacked.
SafeMoveExists(b, color) ==
    \E id \in OnBoard(b) :
        /\ b.pieces[id].color = color
        /\ \E m \in b.pieces[id].legal_moves :
               /\ is_king_in_check_after_move(b, id, m).err = ""
               /\ ~is_king_in_check_after_move(b, id, m).res

\* C13: whenever is_checkmate returns, it returns true iff the colour's king
\* is attacked and no piece of the colour has a cached legal move after
\* which the king is not attacked; whenever is_stalemate returns, it returns
\* true iff the king is not attacked and there is no such move; the two are
\* never both true for the same colour on the same board.  This holds for
\* either colour and in whatever order the moves are tried.
C13_CheckmateAndStalemate ==
    \A color \in {"white", "black"}, ord \in SetOrders :
        /\ is_checkmate(game.board, color, ord).err = ""
               => is_checkmate(game.board, color, ord).res
                      = (is_check(game.board, color).res
                             /\ ~SafeMoveExists(game.board, color))
        /\ is_stalemate(game.board, color, ord).err = ""
               => is_stalemate(game.board, color, ord).res
                      = (~is_check(game.board, color).res
                             /\ ~SafeMoveExists(game.board, color))
        /\ ~(is_checkmate(game.board, color, ord).res
                 /\ is_stalemate(game.board, color, ord).res)

\* The black king is attacked and has cached moves, none of which saves it:
\* is_checkmate has answered true and is_stalemate false.
C13_Witness ==
    /\ is_checkmate(game.board, "black", "ascending").res
    /\ ~is_stalemate(game.board, "black", "ascending").res
    /\ \E id \in OnBoard(game.board) :
           game.board.pieces[id].color = "black" /\ game.board.pieces[id].legal_moves # {}
    /\ game.is_checkmate

\* The entries of the position log that show the same piece placement, side
\* to move, castling availability and en passant target as its last entry.
Occurrences(g) ==
    {i \in 1 .. Len(g.position_log) :
        LET e == g.position_log[i]
            last == g.position_log[Len(g.position_log)]
        IN /\ e.piece_placement = last.piece_placement
           /\ e.turn = last.turn
           /\ e.castling_availability = last.castling_availability
           /\ e.en_passant_target_square = last.en_passant_target_square}

\* C14: a make_move call that returns normally has appended one snapshot to
\* the position log, which began with the snapshot of the initial position;
\* the appended snapshot is that of the game as the call leaves it, and
\* is_threefold_repetition is true iff that snapshot occurs at least three
\* times in the log, the initial and the appended entries counted (with two
\* occurrences it is false).
C14_ThreefoldRepetition ==
    [][(call'.op \in MakeMoveCalls /\ call'.err = "")
          => /\ game'.position_log
                    = Append(game.position_log, get_current_game_position(game'))
             /\ Len(game'.position_log) = game'.halfmove_counter + 1
             /\ game'.is_threefold_repetition
                    = (Cardinality(Occurrences(game')) >= 3)]_vars

\* The third occurrence of a position, the initial one being the first, with
\* other positions in between: entries 1, 5 and 9 of the log.
C14_Witness ==
    /\ call.op = "drop" /\ call.err = ""
    /\ game.is_threefold_repetition
    /\ Occurrences(game) = {1, 5, 9}
    /\ ~game.is_checkmate /\ ~game.is_stalemate

\* C15 as stated: once is_checkmate, is_stalemate, is_threefold_repetition
\* or fifty_move_counter >= 50 holds, no later make_move call changes the
\* board, the turn, the counters, the captured lists or the position log.
C15_NoMoveAfterGameOver ==
    [][(game_status(game) # "" /\ call'.op \in MakeMoveCalls)
          => GameView(game') = GameView(game)]_vars

\* C15: make_move does not look at the end-of-game conditions; the loop
\* does.  Once one of them holds the loop handles no further drop, so it
\* calls make_move no more; a direct call of make_move made while
\* is_checkmate or is_stalemate is set is rejected and changes nothing,
\* because the side to move has no move that passes.
C15_LoopStopsAfterGameOver ==
    [][/\ game_status(game) # "" => call'.op # "drop"
       /\ (call'.op = "make_move" /\ (game.is_checkmate \/ game.is_stalemate))
             => /\ call'.err \in Rejections
                /\ GameView(game') = GameView(game)]_vars

\* The loop has handled the drop that brought the third occurrence of a
\* position: the game is over by threefold repetition with pieces that
\* could still move.
C15_Witness ==
    /\ call.op = "drop" /\ call.err = ""
    /\ game_status(game) = "threefold repetition"
    /\ \E id \in OnBoard(game.board) :
           /\ game.board.pieces[id].color = game.turn
           /\ \E m \in game.board.pieces[id].legal_moves :
                  /\ is_king_in_check_after_move(game.board, id, m).err = ""
                  /\ ~is_king_in_check_after_move(game.board, id, m).res

\* C16: a make_move call that returns normally leaves fifty_move_counter at
\* 0 if a piece left the board with the move or the piece moved is a pawn,
\* and otherwise at its previous value plus 1; a castling move, in which the
\* king and a rook both move, counts as one move of the second kind.
C16_FiftyMoveCounter ==
    [][(call'.op \in MakeMoveCalls /\ call'.err = "")
          => /\ game'.fifty_move_counter =
                    IF \/ Cardinality(OnBoard(game'.board))
                              < Cardinality(OnBoard(game.board))
                       \/ game.board.pieces[call'.piece].name = "Pawn"
                    THEN 0
                    ELSE game.fifty_move_counter + 1
             /\ KingMoveCompleted(2)
                    => game'.fifty_move_counter = game.fifty_move_counter + 1]_vars

\* A capture made right after a quiet move: the counter is back at 0 from 1.
C16_Witness ==
    /\ call.op = "make_move" /\ call.err = ""
    /\ prior.op = "make_move" /\ prior.err = ""
    /\ game.halfmove_counter = 2
    /\ game.fifty_move_counter = 0
    /\ Len(game.captured_pieces["black"]) = 1

\* C17: the loop declares the game over under the fifty-move rule only when
\* fifty full moves, 100 half-moves, have gone by without a capture or a
\* pawn move; so at least 100 half-moves have been played by then, all of
\* them counted by fifty_move_counter.
C17_FiftyMoveRuleAfterFiftyFullMoves ==
    game_status(game) = "fifty move rule"
        => /\ game.halfmove_counter >= 100
           /\ game.fifty_move_counter >= 100

\* C18: from a new game, a make_move call that returns normally adds exactly
\* 1 to halfmove_counter, and adds 1 to fullmove_counter when the piece
\* moved is black and nothing when it is white; in every state the fullmove
\* counter is the halfmove counter divided by two, rounded down, and it is
\* White's turn iff the halfmove counter is even.
C18_MoveCounters ==
    /\ [](/\ game.fullmove_counter = game.halfmove_counter \div 2
          /\ game.turn = "white" <=> game.halfmove_counter % 2 = 0)
    /\ [][(call'.op \in MakeMoveCalls /\ call'.err = "")
             => /\ game'.halfmove_counter = game.halfmove_counter + 1
                /\ game'.fullmove_counter =
                       IF game.board.pieces[call'.piece].color = "black"
                       THEN game.fullmove_counter + 1
                       ELSE game.fullmove_counter]_vars

\* White has just made its second move: three half-moves, one full move.
C18_Witness ==
    /\ call.op \in MakeMoveCalls /\ call.err = ""
    /\ game.board.pieces[call.piece].color = "white"
    /\ game.halfmove_counter = 3
    /\ game.fullmove_counter = 1
    /\ game.turn = "black"

\* The piece kinds promote_pawn is documented to accept.
KindOf == [Q |-> "Queen", R |-> "Rook", B |-> "Bishop", N |-> "Knight"]

LastRank(color) == IF color = "white" THEN 0 ELSE 7

\* C19: promote_pawn raises, leaving the grid and the piece list as they
\* were, if the piece is not a pawn, if the choice is not one of Q, R, B, N
\* or if the pawn is not on its last rank (0 for white, 7 for black);
\* otherwise it returns normally, the pawn is off the grid and off the piece
\* list, a new piece of the chosen kind and of the pawn's colour stands on
\* the pawn's square and is in the list, and the number of pieces on the
\* board is the same.
C19_PromotePawn ==
    [][call'.op = "promote"
          => LET b == game.board
                 pc == game.board.pieces[call'.piece]
                 new_piece == game'.board.board_table[pc.position]
             IN IF \/ pc.name # "Pawn"
                   \/ call'.choice \notin DOMAIN KindOf
                   \/ pc.position[1] # LastRank(pc.color)
                THEN /\ call'.err # ""
                     /\ game'.board.board_table = b.board_table
                     /\ game'.board.piece_list = b.piece_list
                ELSE /\ call'.err = ""
                     /\ CellsOf(game'.board, call'.piece) = {}
                     /\ ~InList(game'.board.piece_list, call'.piece)
                     /\ new_piece \notin DOMAIN b.pieces \cup {None}
                     /\ game'.board.pieces[new_piece].name = KindOf[call'.choice]
                     /\ game'.board.pieces[new_piece].color = pc.color
                     /\ game'.board.pieces[new_piece].position = pc.position
                     /\ InList(game'.board.piece_list, new_piece)
                     /\ Len(game'.board.piece_list) = Len(b.piece_list)
                     /\ \A p \in Squares \ {pc.position} :
                            game'.board.board_table[p] = b.board_table[p]]_vars

\* A black pawn on rank 7 has been promoted to a knight.
C19_Witness ==
    /\ call.op = "promote" /\ call.err = ""
    /\ call.choice = "N"
    /\ call.to[1] = 7
    /\ game.board.pieces[game.board.board_table[call.to]].name = "Knight"
    /\ game.board.pieces[game.board.board_table[call.to]].color = "black"

(***************************************************************************)
(* Properties of the pieces' move generation, checked under EditSpec.      *)
(***************************************************************************)
\* The rank a pawn of the colour starts on and the direction it moves in.
PawnStartRank(color) == IF color = "white" THEN 6 ELSE 1

PawnDirection(color) == IF color = "white" THEN -1 ELSE 1

\* C20: for every pawn on the board, of either colour, on any file and any
\* rank, the possible moves are squares of the board among the square one
\* rank ahead, the square two ranks ahead and the two squares diagonally
\* ahead; the square ahead is among them only if it is empty, the square two
\* ahead only if the pawn is on its starting rank and that square is empty,
\* a diagonal square only if a piece of the other colour stands on it or it
\* is the en passant capture square.
C20_PawnPossibleMoves ==
    \A id \in OnBoard(game.board) :
        game.board.pieces[id].name = "Pawn"
            => LET b == game.board
                   p == game.board.pieces[id].position
                   color == game.board.pieces[id].color
                   d == PawnDirection(color)
                   ahead == <<p[1] + d, p[2]>>
                   two == <<p[1] + 2 * d, p[2]>>
                   diagonals == {<<p[1] + d, p[2] - 1>>, <<p[1] + d, p[2] + 1>>}
                   moves == generate_possible_moves(b, id)
               IN /\ moves \subseteq Squares \cap ({ahead, two} \cup diagonals)
                  /\ ahead \in moves => get_piece_at_square(b, ahead) = None
                  /\ two \in moves
                         => /\ p[1] = PawnStartRank(color)
                            /\ get_piece_at_square(b, two) = None
                  /\ \A q \in diagonals \cap moves :
                         \/ /\ get_piece_at_square(b, q) # None
                            /\ b.pieces[get_piece_at_square(b, q)].color # color
                         \/ IsEnPassantCapture(b, id, q)

\* The directions a rook, a bishop and a queen slide in.
SlideDirections(name) ==
    CASE name = "Rook" -> {<<1, 0>>, <<-1, 0>>, <<0, 1>>, <<0, -1>>}
      [] name = "Bishop" -> {<<1, 1>>, <<1, -1>>, <<-1, 1>>, <<-1, -1>>}
      [] name = "Queen" -> {<<1, 0>>, <<-1, 0>>, <<0, 1>>, <<0, -1>>,
                            <<1, 1>>, <<1, -1>>, <<-1, 1>>, <<-1, -1>>}
      [] OTHER -> {}

\* The square at distance k from p in direction d.
Along(p, d, k) == <<p[1] + k * d[1], p[2] + k * d[2]>>

\* A piece of the colour of piece id stands at distance k from it in
\* direction d.
FriendAt(b, id, d, k) ==
    /\ get_piece_at_square(b, Along(b.pieces[id].position, d, k)) # None
    /\ b.pieces[get_piece_at_square(b, Along(b.pieces[id].position, d, k))].color
           = b.pieces[id].color

\* The squares of the board further than k from piece id in direction d.
Beyond(b, id, d, k) ==
    {Along(b.pieces[id].position, d, m) : m \in (k + 1) .. 7} \cap Squares

\* C21 as stated: for a rook, bishop or queen, if a piece of its own colour
\* stands at distance k along one of its movement directions, the possible
\* moves contain no square at distance greater than k in that direction.
C21_PossibleMovesStopAtOwnPiece ==
    \A id \in OnBoard(game.board) :
        \A d \in SlideDirections(game.board.pieces[id].name), k \in 1 .. 7 :
            FriendAt(game.board, id, d, k)
                => Beyond(game.board, id, d, k)
                       \cap generate_possible_moves(game.board, id) = {}

\* C21, amended: the possible moves of a rook, bishop or queen are all the
\* squares of the board along its directions, whatever stands on them; it
\* is the legal moves (generate_legal_moves, and the cache of every piece of
\* the piece list) that contain no square at distance k or greater in a
\* direction where a piece of its own colour stands at distance k.
C21_LegalMovesStopAtOwnPiece ==
    \A id \in OnBoard(game.board) :
        \A d \in SlideDirections(game.board.pieces[id].name) :
            /\ Ray(game.board.pieces[id].position, d[1], d[2])
                   \subseteq generate_possible_moves(game.board, id)
            /\ \A k \in 1 .. 7 :
                   FriendAt(game.board, id, d, k)
                       => /\ (Beyond(game.board, id, d, k - 1)
                                \cap generate_legal_moves(game.board, id)) = {}
                          /\ InList(game.board.piece_list, id)
                                 => (Beyond(game.board, id, d, k - 1)
                                       \cap game.board.pieces[id].legal_moves) = {}

\* A pawn has just been promoted to a queen that has a piece of its own
\* colour next to it on a diagonal with squares of the board behind it.
C21_Witness ==
    /\ call.op = "promote" /\ call.err = ""
    /\ \E id \in OnBoard(game.board) :
           /\ id = game.board.board_table[call.to]
           /\ game.board.pieces[id].name = "Queen"
           /\ \E d \in {<<1, 1>>, <<1, -1>>, <<-1, 1>>, <<-1, -1>>} :
                  /\ FriendAt(game.board, id, d, 1)
                  /\ Beyond(game.board, id, d, 1) # {}

(***************************************************************************)
(* Properties of the move sets, checked under RunSpec and EditSpec.        *)
(***************************************************************************)
\* C22: in every state reachable through make_move, for every piece of the
\* board, of any kind and on any square (a pawn standing on rank 0 or 7
\* included), the possible moves and the cached legal moves are squares of
\* the board: rank and file both in 0 .. 7.
C22_MovesStayOnBoard ==
    \A id \in OnBoard(game.board) :
        /\ generate_possible_moves(game.board, id) \subseteq Squares
        /\ game.board.pieces[id].legal_moves \subseteq Squares

\* C23: on every board a completed call leaves, the cached legal_moves of
\* every piece of the board is a subset of the possible moves the piece has
\* on that board, its own square taken out.
C23_CachedMovesArePossibleMoves ==
    call.err = ""
        => \A id \in OnBoard(game.board) :
               game.board.pieces[id].legal_moves
                   \subseteq (generate_possible_moves(game.board, id)
                                \ {game.board.pieces[id].position})

\* The same for every piece but the kings.
C23_ExceptKings ==
    call.err = ""
        => \A id \in OnBoard(game.board) :
               game.board.pieces[id].name # "King"
                   => game.board.pieces[id].legal_moves
                          \subseteq (generate_possible_moves(game.board, id)
                                       \ {game.board.pieces[id].position})

(***************************************************************************)
(* Properties of the exported position, checked under EditSpec.            *)
(***************************************************************************)
\* The king of the colour stands unmoved on its square and the rook of the
\* colour stands unmoved in the corner of the given file.
CastlingRight(b, color, file) ==
    LET rank == IF color = "white" THEN 7 ELSE 0
        king == get_piece_at_square(b, <<rank, 4>>)
        rook == get_piece_at_square(b, <<rank, file>>)
    IN /\ king # None
       /\ b.pieces[king].name = "King"
       /\ b.pieces[king].color = color
       /\ b.pieces[king].has_moved = "false"
       /\ rook # None
       /\ b.pieces[rook].name = "Rook"
       /\ b.pieces[rook].color = color
       /\ b.pieces[rook].has_moved = "false"

\* C24: in the exported state the castling letter K (Q, k, q) is present
\* iff White's (Black's) king has not moved and the kingside (queenside)
\* rook of that colour has not moved from its corner; no letter is present
\* for a corner that holds another piece, such as a rook of the other
\* colour or a promoted rook; and the field is "-" exactly when no letter
\* is present.
C24_CastlingLetters ==
    LET fen == get_fen_castling_rights(game.board)
    IN /\ InList(fen, "K") <=> CastlingRight(game.board, "white", 7)
       /\ InList(fen, "Q") <=> CastlingRight(game.board, "white", 0)
       /\ InList(fen, "k") <=> CastlingRight(game.board, "black", 7)
       /\ InList(fen, "q") <=> CastlingRight(game.board, "black", 0)
       /\ fen = <<"-">> <=> \A i \in 1 .. Len(fen) : fen[i] \notin {"K", "Q", "k", "q"}

(***************************************************************************)
(* Properties of the FEN import and export, checked under FenSpec.         *)
(***************************************************************************)
\* The letters of the files and the digits of the ranks, by column and row.
FileLetters == <<"a", "b", "c", "d", "e", "f", "g", "h">>

RankDigits == <<"8", "7", "6", "5", "4", "3", "2", "1">>

\* C25: the exported en passant target square is "-" iff the board has no
\* en passant target pawn; otherwise it is the algebraic name (file letter
\* by column from "a", rank digit 8 minus the row) of the square the pawn
\* skipped over, one rank behind it in its direction of travel.
C25_EnPassantTargetSquare ==
    call.op = "get_fen_board_state"
        => LET ep == game.board.en_passant_piece
               exported == call.ret.en_passant_target_square
           IN /\ exported = <<"-">> <=> ep = None
              /\ ep # None
                     => LET p == game.board.pieces[ep].position
                            behind == p[1] - PawnDirection(game.board.pieces[ep].color)
                        IN exported = <<FileLetters[p[2] + 1], RankDigits[behind + 1]>>

\* The position after 1. e4 e5 has been exported with the black pawn as the
\* en passant target: e6.
C25_Witness ==
    /\ call.op = "get_fen_board_state"
    /\ game.board.en_passant_piece # None
    /\ game.board.pieces[game.board.en_passant_piece].color = "black"
    /\ game.board.pieces[game.board.en_passant_piece].position = <<3, 4>>
    /\ call.ret.en_passant_target_square = <<"e", "6">>

\* The number of files a rank of a placement string covers: one for a piece
\* letter, its value for a digit.
RECURSIVE RankWidth(_)
RankWidth(rank) ==
    IF rank = <<>>
    THEN 0
    ELSE (IF Head(rank) \in Digits THEN DigitValue(Head(rank)) ELSE 1)
             + RankWidth(Tail(rank))

\* A placement string with eight ranks of eight files each.
EightByEight(str) ==
    LET ranks == SplitRanks(str, 1, <<>>)
    IN /\ Len(ranks) = 8
       /\ \A i \in 1 .. 8 :
              /\ \A k \in 1 .. Len(ranks[i]) : ranks[i][k] \in PieceLetters \cup Digits
              /\ RankWidth(ranks[i]) = 8

\* A valid placement string: eight by eight, every run of empty squares
\* written as a single digit from 1 to 8.
ValidPlacement(str) ==
    /\ EightByEight(str)
    /\ \A k \in 1 .. Len(str) :
           str[k] \in Digits
               => /\ str[k] # "0" /\ str[k] # "9"
                  /\ k < Len(str) => str[k + 1] \notin Digits

\* C26: for every board, parsing the exported placement string yields a
\* grid of eight rows of eight cells with a piece of the same kind and
\* colour on every occupied square and no piece elsewhere; and exporting
\* the board made of the grid parsed from a valid placement string returns
\* the same string.
C26_PlacementRoundTrip ==
    /\ call.op = "get_fen_board_state"
           => LET r == parse_fen(call.ret.piece_placement)
              IN /\ r.err = ""
                 /\ Len(r.rows) = 8
                 /\ \A p \in Squares :
                        /\ Len(r.rows[p[1] + 1]) = 8
                        /\ IF game.board.board_table[p] = None
                           THEN r.rows[p[1] + 1][p[2] + 1] = <<>>
                           ELSE /\ Len(r.rows[p[1] + 1][p[2] + 1]) = 1
                                /\ r.rows[p[1] + 1][p[2] + 1][1].name
                                       = game.board.pieces[game.board.board_table[p]].name
                                /\ r.rows[p[1] + 1][p[2] + 1][1].color
                                       = game.board.pieces[game.board.board_table[p]].color
                                /\ r.rows[p[1] + 1][p[2] + 1][1].position = p
    /\ (call.op = "parse_fen" /\ ValidPlacement(call.fen_string))
           => /\ call.err = ""
              /\ get_fen_board(populate_board(call.ret)) = call.fen_string

\* A board with a knight on it has been exported and the exported string,
\* a valid one, has then been parsed.
C26_Witness ==
    /\ call.op = "parse_fen" /\ call.err = ""
    /\ ValidPlacement(call.fen_string)
    /\ InList(call.fen_string, "n")
    /\ prior.op = "get_fen_board_state"
    /\ prior.ret.piece_placement = call.fen_string

\* C27 as stated: parse_fen fails for every placement string that does not
\* have exactly eight ranks or in which the piece letters and the digits of
\* some rank do not add up to eight files; it never returns a grid with a
\* row whose length is not eight and never accepts a string with more than
\* eight ranks.
C27_ParseFenRejectsMalformed ==
    call.op = "parse_fen"
        => /\ ~EightByEight(call.fen_string) => call.err # ""
           /\ call.err = ""
                  => /\ Len(call.ret) = 8
                     /\ \A i \in 1 .. Len(call.ret) : Len(call.ret[i]) = 8
                     /\ Len(SplitRanks(call.fen_string, 1, <<>>)) <= 8

(***************************************************************************)
(* Properties of the board's error handling, checked under EditSpec.       *)
(***************************************************************************)
\* The squares next to the board.
OutOfRangeSquares == ((-1 .. 8) \X (-1 .. 8)) \ Squares

\* C28: _place_piece raises and leaves the grid and the piece list as they
\* were if the square is occupied or out of range; _remove_piece_at_square
\* and move_piece_to_square raise ValueError for a square out of range and
\* leave the board as it was; _remove_piece_at_square on an empty square of
\* the board returns normally and changes nothing; get_piece_at_square
\* answers None for a square out of range.
C28_BoardErrorHandling ==
    /\ [](\A p \in OutOfRangeSquares : get_piece_at_square(game.board, p) = None)
    /\ [][/\ (/\ call'.op = "place"
              /\ \/ ~InRange(call'.to)
                 \/ game.board.board_table[call'.to] # None)
                 => /\ call'.err # ""
                    /\ game'.board.board_table = game.board.board_table
                    /\ game'.board.piece_list = game.board.piece_list
          /\ (call'.op \in {"remove", "move"} /\ ~InRange(call'.to))
                 => /\ call'.err = "ValueError"
                    /\ game'.board = game.board
          /\ (/\ call'.op = "remove"
              /\ InRange(call'.to)
              /\ game.board.board_table[call'.to] = None)
                 => /\ call'.err = ""
                    /\ game'.board = game.board]_vars

\* _place_piece has been turned away for a square out of range, after
\* _remove_piece_at_square was called on an empty square of the board.
C28_Witness ==
    /\ call.op = "place" /\ call.to = OffBoard /\ call.err = "ValueError"
    /\ prior.op = "remove" /\ prior.err = "" /\ prior.piece = None
    /\ InRange(prior.to)

(***************************************************************************)
(* Properties of the captured lists and of the position log, checked under *)
(* Spec.                                                                   *)
(***************************************************************************)
\* The pieces of the other side that a step takes off the board.
Taken(b, after, color) ==
    {id \in OnBoard(b) \ OnBoard(after) : b.pieces[id].color # color}

\* C29: whenever a successful make_move captures a piece, exactly that piece
\* is appended to the captured list of the colour that moved and nothing is
\* appended to the list of the other colour; a move that captures nothing
\* appends nothing to either list.
C29_CapturedPieces ==
    [][(call'.op \in MakeMoveCalls /\ call'.err = "")
          => LET taken == Taken(game.board, game'.board, game.turn)
             IN /\ Cardinality(taken) <= 1
                /\ game'.captured_pieces[OtherColor(game.turn)]
                       = game.captured_pieces[OtherColor(game.turn)]
                /\ IF taken = {}
                   THEN game'.captured_pieces[game.turn]
                            = game.captured_pieces[game.turn]
                   ELSE \E id \in taken :
                            game'.captured_pieces[game.turn]
                                = Append(game.captured_pieces[game.turn], id)]_vars

\* White has taken a black rook: the rook is off the board, the piece that
\* moved stands on its square, and it is the one piece in White's list.
C29_Witness ==
    /\ call.op = "make_move" /\ call.err = ""
    /\ Len(game.captured_pieces["white"]) = 1
    /\ game.captured_pieces["black"] = <<>>
    /\ game.board.pieces[game.captured_pieces["white"][1]].name = "Rook"
    /\ game.board.pieces[game.captured_pieces["white"][1]].color = "black"
    /\ game.captured_pieces["white"][1] \notin OnBoard(game.board)
    /\ game.board.pieces[game.captured_pieces["white"][1]].position = call.to
    /\ game.board.board_table[call.to] = call.piece

\* The letter a logged position has for the side to move.
TurnLetter(color) == IF color = "white" THEN "w" ELSE "b"

\* C30: the position log holds the initial position followed by one
\* snapshot per successful make_move, in order, each equal to the position
\* right after that move with the side to move already flipped; a rejected
\* make_move appends nothing; the length of the log is always
\* halfmove_counter + 1.
C30_PositionLog ==
    /\ [](/\ Len(game.position_log) = game.halfmove_counter + 1
          /\ call.op = "init"
                 => game.position_log = <<get_current_game_position(game)>>)
    /\ [][/\ (call'.op \in MakeMoveCalls /\ call'.err = "")
                 => /\ game'.position_log
                           = Append(game.position_log,
                                    get_current_game_position(game'))
                    /\ game'.position_log[Len(game'.position_log)].turn
                           = TurnLetter(OtherColor(game.turn))
          /\ (call'.op \in MakeMoveCalls /\ call'.err \in Rejections)
                 => game'.position_log = game.position_log
          /\ game'.position_log # game.position_log
                 => /\ SubSeq(game'.position_log, 1, Len(game.position_log))
                           = game.position_log
                    /\ Len(game'.position_log) = Len(game.position_log) + 1
                    /\ game'.halfmove_counter = game.halfmove_counter + 1]_vars

\* Two moves have been made and a third call has been rejected: the log
\* holds three positions, for white, black and white to move.
C30_Witness ==
    /\ call.op \in MakeMoveCalls /\ call.err \in Rejections
    /\ prior.op \in MakeMoveCalls /\ prior.err = ""
    /\ game.halfmove_counter = 2
    /\ Len(game.position_log) = 3
    /\ game.position_log[2].turn = "b"
    /\ game.position_log[3] = get_current_game_position(game)
    /\ game.position_log[2] # game.position_log[1]

(***************************************************************************)
(* Properties of chess_logic.py, checked under LogicSpec.                  *)
(***************************************************************************)
\* The king of the colour is attacked on the board: its square is among the
\* legal moves, computed on the board as it stands, of a piece of the other
\* colour.
KingAttacked(b, color) ==
    \E k \in OnBoard(b) :
        /\ b.pieces[k].name = "King"
        /\ b.pieces[k].color = color
        /\ AttackedNow(b, b.pieces[k].position, color)

LogicSearches == {"is_checkmate", "is_stalemate"}

\* C31: whenever is_king_in_check_after_move returns for a piece and one of
\* its cached legal moves, it returns true iff the king of the piece's colour
\* is attacked in the position the move leads to, and every square's
\* occupant, every piece's position and has-moved flag and the set of pieces
\* on the board are as before the call; is_checkmate and is_stalemate,
\* whenever they return, leave the same things as they were.
C31_ProbeAnswersAndRestores ==
    /\ (call.op = "is_king_in_check_after_move" /\ call.err = "")
           => /\ call.ret = KingAttacked(
                                move_piece_to_square(call.before[1], call.piece,
                                                     call.to, FALSE).b,
                                call.before[1].pieces[call.piece].color)
              /\ BoardView(game.board) = BoardView(call.before[1])
    /\ (call.op \in LogicSearches /\ call.err = "")
           => BoardView(game.board) = BoardView(call.before[1])

\* The probe of a capture by a piece that had not moved yet has returned
\* with the king attacked afterwards, right after a search that tried every
\* move of the colour and answered true.
C31_Witness ==
    /\ call.op = "is_king_in_check_after_move"
    /\ call.err = ""
    /\ call.ret
    /\ call.before[1].pieces[call.piece].has_moved = "false"
    /\ get_piece_at_square(call.before[1], call.to) # None
    /\ prior.op \in LogicSearches
    /\ prior.err = ""
    /\ prior.ret

LogicProbes == {"is_king_in_check_after_move"} \cup LogicSearches

\* C32: a call of move_piece_to_square with change_en_passant false leaves
\* en_passant_piece as it was, whatever piece it moves and however far, and
\* so does the revert_move after it; a call of is_king_in_check_after_move,
\* of is_checkmate or of is_stalemate leaves en_passant_piece as it was,
\* whether it returns or raises.
C32_ProbesKeepEnPassantTarget ==
    /\ (call.op = "move" /\ ~call.flag)
           => game.board.en_passant_piece = call.before[1].en_passant_piece
    /\ call.op = "revert"
           => game.board.en_passant_piece = call.before[1].en_passant_piece
    /\ call.op \in LogicProbes
           => game.board.en_passant_piece = call.before[1].en_passant_piece

\* With an en passant target set, a piece was moved two ranks with
\* change_en_passant false and put back, and a probe has then moved a piece
\* and returned: the target is still the same pawn.
C32_Witness ==
    /\ call.op = "is_king_in_check_after_move"
    /\ call.err = ""
    /\ call.before[1].en_passant_piece # None
    /\ game.board.en_passant_piece = call.before[1].en_passant_piece
    /\ prior.op = "revert"
    /\ prior.err = ""
    /\ Abs(prior.from[1] - prior.to[1]) = 2

(***************************************************************************)
(* Properties of the undo record, checked under BoardSpec.                 *)
(***************************************************************************)
\* The piece a move of the piece to the square takes off the board: the en
\* passant target when a pawn of the other colour lands right behind it,
\* otherwise the piece standing on the square, if any.
CapturedBy(b, id, d) ==
    IF /\ b.pieces[id].name = "Pawn"
       /\ b.en_passant_piece # None
       /\ b.pieces[b.en_passant_piece].color # b.pieces[id].color
       /\ b.pieces[b.en_passant_piece].position[2] = d[2]
       /\ b.pieces[b.en_passant_piece].position[1]
              = d[1] + PawnDirection(b.pieces[b.en_passant_piece].color)
    THEN b.en_passant_piece
    ELSE b.board_table[d]

\* C33: after every call of move_piece_to_square that returns,
\* last_piece_captured is the piece that move took off the board, or None if
\* it took none, whatever the slot held before, and the same piece is what
\* the call returns; after every revert_move that returns the slot is None
\* and the piece it held is in piece_list and on the square the reverted
\* piece left.
C33_UndoRecordHoldsLastCapture ==
    [][/\ (call'.op = "move" /\ call'.err = "")
              => /\ game'.board.last_piece_captured
                        = CapturedBy(game.board, call'.piece, call'.to)
                 /\ call'.ret = game'.board.last_piece_captured
       /\ (call'.op = "revert" /\ call'.err = "")
              => /\ game'.board.last_piece_captured = None
                 /\ game.board.last_piece_captured # None
                        => /\ InList(game'.board.piece_list,
                                     game.board.last_piece_captured)
                           /\ get_piece_at_square(game'.board, call'.from)
                                  = game.board.last_piece_captured
      ]_vars

\* A move that captured nothing has followed, with no revert in between, a
\* move that captured a piece: the slot is empty again.
C33_Witness ==
    /\ call.op = "move"
    /\ call.err = ""
    /\ call.ret = None
    /\ game.board.last_piece_captured = None
    /\ prior.op = "move"
    /\ prior.err = ""
    /\ prior.flag
    /\ prior.ret # None
    /\ prior.ret # call.piece

\* The squares strictly between two squares of one rank, file or diagonal;
\* none for any other pair of squares.
Between(s, e) ==
    {q \in Squares :
        /\ q # s /\ q # e
        /\ Min(s[1], e[1]) <= q[1] /\ q[1] <= Max(s[1], e[1])
        /\ Min(s[2], e[2]) <= q[2] /\ q[2] <= Max(s[2], e[2])
        /\ \/ s[1] = e[1]
           \/ s[2] = e[2]
           \/ /\ Abs(s[1] - e[1]) = Abs(s[2] - e[2])
              /\ Abs(s[1] - q[1]) = Abs(s[2] - q[2])}

\* The square on which the pawn captures the en passant target: the target
\* is a pawn of the other colour standing beside the pawn, and the square is
\* the one the target stepped over.
EnPassantCaptureSquare(b, id, d) ==
    /\ b.pieces[id].name = "Pawn"
    /\ b.en_passant_piece # None
    /\ b.pieces[b.en_passant_piece].color # b.pieces[id].color
    /\ b.pieces[b.en_passant_piece].position[1] = b.pieces[id].position[1]
    /\ Abs(b.pieces[b.en_passant_piece].position[2] - b.pieces[id].position[2]) = 1
    /\ d = <<b.pieces[id].position[1] + PawnDirection(b.pieces[id].color),
             b.pieces[b.en_passant_piece].position[2]>>

\* What is_legal_move answers with the exception taken as given.
LegalIf(b, id, d, exception) ==
    IF b.board_table[d] # None /\ b.pieces[b.board_table[d]].color = b.pieces[id].color
    THEN FALSE
    ELSE IF b.pieces[id].name = "Knight"
    THEN TRUE
    ELSE IF exception
    THEN TRUE
    ELSE \A q \in Between(b.pieces[id].position, d) : b.board_table[q] = None

\* C34: for every piece of the board and every square, is_legal_move is
\* false when the square holds a piece of the piece's colour; otherwise true
\* for a knight; otherwise true for a pawn and the square on which it
\* captures the en passant target; otherwise true iff no square strictly
\* between the piece's square and the square, on their common rank, file or
\* diagonal, is occupied.
C34_IsLegalMove ==
    \A id \in OnBoard(game.board) : \A d \in Squares :
        is_legal_move(game.board, id, d)
            = LegalIf(game.board, id, d, EnPassantCaptureSquare(game.board, id, d))

\* The same with the exception as is_legal_move has it: any pawn and any
\* square of the en passant target's file one rank away from the target.
C34_ExceptBesideTarget ==
    \A id \in OnBoard(game.board) : \A d \in Squares :
        is_legal_move(game.board, id, d)
            = LegalIf(game.board, id, d,
                      /\ game.board.pieces[id].name = "Pawn"
                      /\ game.board.en_passant_piece # None
                      /\ d[2] = game.board.pieces[game.board.en_passant_piece].position[2]
                      /\ Abs(d[1] - game.board.pieces[game.board.en_passant_piece].position[1]) = 1)

(***************************************************************************)
(* Properties of ChessGame.make_move around promotion and errors, checked  *)
(* under Spec.                                                             *)
(***************************************************************************)
\* The call moves a pawn onto the last rank of its colour.
PawnToLastRank(b, c) ==
    /\ c.piece # None
    /\ b.pieces[c.piece].name = "Pawn"
    /\ c.to[1] = LastRank(b.pieces[c.piece].color)

\* The call ended as the same call does on a game with no promotion choice
\* pending, for some iteration order of the game-over probes; what has
\* become of the choice is left aside.
AsWithNoChoicePending(g, c, after) ==
    \E ord \in SetOrders :
        /\ make_move([g EXCEPT !.promotion_choice = NoChoice], c.from, c.to, ord).err
               = c.err
        /\ make_move([g EXCEPT !.promotion_choice = NoChoice], c.from, c.to, ord).g
               = [after EXCEPT !.promotion_choice = NoChoice]

\* C35: a call of make_move that gets past the four rejections puts a new
\* piece on the board only when it moves a pawn onto its last rank; and a
\* call that moves anything else while a promotion choice is pending from an
\* earlier call ends as it would with no choice pending, error or none, the
\* pending choice itself apart.
C35_PromotionOnlyForPawnOnLastRank ==
    [][(call'.op \in MakeMoveCalls /\ call'.piece # None)
          => /\ Len(game'.board.pieces) > Len(game.board.pieces)
                    => PawnToLastRank(game.board, call')
             /\ (/\ call'.op = "make_move"
                 /\ game.promotion_choice # NoChoice
                 /\ ~PawnToLastRank(game.board, call'))
                    => AsWithNoChoicePending(game, call', game')
      ]_vars

\* What a call of make_move that raises is to leave alone.
MoveView(g) ==
    <<g.board.board_table,
      [i \in DOMAIN g.board.pieces |-> g.board.pieces[i].position],
      [i \in DOMAIN g.board.pieces |-> g.board.pieces[i].has_moved],
      g.board.en_passant_piece, g.turn, g.halfmove_counter, g.fullmove_counter,
      g.fifty_move_counter, g.captured_pieces, g.position_log>>

\* C36: a call of make_move that raises, whatever the error, leaves the
\* piece placement, the has-moved flags, the en passant target, the turn,
\* the halfmove, fullmove and fifty-move counters, the captured lists and
\* the position log as they were before the call.
C36_FailedMoveChangesNothing ==
    [][(call'.op \in MakeMoveCalls /\ call'.err # "")
          => MoveView(game') = MoveView(game)]_vars

PathPieces == {"Rook", "Bishop", "Queen", "King", "Pawn"}

\* C37: in every position make_move leads to, no cached legal move of a
\* rook, bishop, queen, king or pawn has an occupied square strictly between
\* the piece's square and the destination on the rank, file or diagonal they
\* share; in particular the square two ahead of a pawn is not among its
\* cached legal moves when the square right ahead of it is occupied.
C37_CachedMovesHaveClearPaths ==
    \A id \in OnBoard(game.board) :
        game.board.pieces[id].name \in PathPieces
            => \A d \in game.board.pieces[id].legal_moves :
                   \A q \in Between(game.board.pieces[id].position, d) :
                       game.board.board_table[q] = None

\* A move has been made, and a pawn on its starting square has the square
\* two ahead among its possible moves and not among its cached legal moves,
\* the square right ahead of it being occupied.
C37_Witness ==
    /\ call.op = "make_move"
    /\ call.err = ""
    /\ \E id \in OnBoard(game.board) :
           /\ game.board.pieces[id].name = "Pawn"
           /\ game.board.pieces[id].position[1]
                  = PawnStartRank(game.board.pieces[id].color)
           /\ \E d \in generate_possible_moves(game.board, id) :
                  /\ Abs(d[1] - game.board.pieces[id].position[1]) = 2
                  /\ d \notin game.board.pieces[id].legal_moves
                  /\ \E q \in Between(game.board.pieces[id].position, d) :
                         game.board.board_table[q] # None

\* C38: in every state calls of make_move lead to from the starting
\* positions, the standard one among them, the board holds exactly one king
\* of each colour: no call captures a king, and is_check finds the king it
\* looks for.
C38_OneKingOfEachColour ==
    \A color \in {"white", "black"} :
        /\ Len(KingsOf(game.board, color)) = 1
        /\ is_check(game.board, color).err = ""

\* A move has been made that attacks the king of the side now to move, and
\* both kings stand on the board.
C38_Witness ==
    /\ call.op = "make_move"
    /\ call.err = ""
    /\ is_check(game.board, game.turn).res
    /\ game.board.pieces[call.piece].color # game.turn
    /\ \A color \in {"white", "black"} : Len(KingsOf(game.board, color)) = 1

\* The number of pieces of the colour the game started with, read off the
\* first entry of the position log.
InitialCount(g, color) ==
    Cardinality({i \in 1 .. Len(g.position_log[1].piece_placement) :
                    /\ g.position_log[1].piece_placement[i] \in PieceLetters
                    /\ ColorOfLetter(g.position_log[1].piece_placement[i]) = color})

\* The entries of the two captured lists that hold the piece.
CapturedEntries(g, id) ==
    {<<c, i>> \in {"white", "black"} \X (1 .. Len(g.board.pieces)) :
        i <= Len(g.captured_pieces[c]) /\ g.captured_pieces[c][i] = id}

\* C39: in every state calls of make_move lead to, the pieces of a colour on
\* the board and the pieces of that colour in the other colour's captured
\* list are together as many as the colour started with, and a piece is in
\* the captured lists at most once, in the list of the other colour, and
\* then not on the board.
C39_PiecesAreConserved ==
    /\ \A color \in {"white", "black"} :
           Cardinality({id \in OnBoard(game.board) :
                           game.board.pieces[id].color = color})
             + Cardinality({id \in DOMAIN game.board.pieces :
                               /\ game.board.pieces[id].color = color
                               /\ CapturedEntries(game, id) # {}})
             = InitialCount(game, color)
    /\ \A id \in DOMAIN game.board.pieces :
           /\ Cardinality(CapturedEntries(game, id)) <= 1
           /\ \A e \in CapturedEntries(game, id) :
                  /\ e[1] # game.board.pieces[id].color
                  /\ id \notin OnBoard(game.board)

(***************************************************************************)
(* The two-player session, checked under SessionSpec.                      *)
(***************************************************************************)
NothingInFlight == \A c \in Players : game[c].socket = <<>>

\* The moves a player's game has executed: origin, destination and choice.
MovesOf(c) ==
    [i \in DOMAIN prior[c] |-> <<prior[c][i][1], prior[c][i][2], prior[c][i][3]>>]

\* A move is applied from a drop only in the game of the player to move and
\* from the socket only in the game of the other player.
AppliedOnTheRightTurn ==
    call.op \in {"drop", "receive"} /\ call.applied =>
        /\ call.op = "drop" => call.turn = call.peer
        /\ call.op = "receive" => call.turn # call.peer

\* C40: in a session of two players, a player's own move is applied only
\* when it is that player's turn and a received move only when it is the
\* other player's turn, and every move a player's game has applied from a
\* drop is sent, once, with the promotion choice it was made with; so when
\* no message is in flight both games have executed the same moves and show
\* the same placement of the pieces and the same side to move.
C40_PeersStayInStep ==
    /\ AppliedOnTheRightTurn
    /\ call.op = "drop" /\ call.applied => call.sent
    /\ NothingInFlight =>
         /\ MovesOf("white") = MovesOf("black")
         /\ get_fen_board(game["white"].game.board)
                = get_fen_board(game["black"].game.board)
         /\ game["white"].game.turn = game["black"].game.turn

\* The case in which the exchange works: a move returned from make_move,
\* was sent and has been received and executed by the other player.
C40_Delivered ==
    /\ call.op = "receive"
    /\ call.applied
    /\ call.err = ""
    /\ NothingInFlight

\* Every move executed so far was executed by a call that returned.
AllReturned ==
    \A c \in Players : \A i \in DOMAIN prior[c] : prior[c][i][4] = ""

\* The players stay in step as long as no call of make_move has raised
\* after changing the game.
C40_InStepWhileCallsReturn == AllReturned => C40_PeersStayInStep

====
